---- MODULE Spec2Model ----
(***************************************************************************)
(* Visual Decision & Segment Assembly Engine of the long-form assembler    *)
(* (src/src/image_video_assembler.py).                                     *)
(*                                                                         *)
(* Texts are TLA+ strings; Python's `kw in text`, str.lower() and the      *)
(* regular expressions of detect_quote are computed character by           *)
(* character.  Durations are exact rationals <<numerator, denominator>>    *)
(* (floating-point rounding is abstracted to real arithmetic).             *)
(* Confidence values are stored in hundredths (0.95 -> 95).                *)
(***************************************************************************)
EXTENDS Integers, Sequences, FiniteSets, TLC

VARIABLES
    segment,            \* the segment dict: text, context, footage_query
    use_veo3,           \* parameter use_veo3
    use_talking_head,   \* parameter use_talking_head
    audio_duration,     \* get_duration(audio_path), a rational
    pc,                 \* position inside create_segment_video
    locals,             \* route_visual's locals (speaker, quote, is_action, ...)
    decision,           \* the VisualDecision returned by route_visual
    num_clips,          \* planned number of shots
    clip_duration,      \* audio_duration / num_clips
    clip_files,         \* accepted shots, in order: [kind, duration, effect,
                        \* downloaded]
    effect_idx,         \* Ken Burns effect counter
    yt_query,           \* index of the next search query of the YouTube loop
    image_urls,         \* number of URLs search_f1_images returned
    image_i,            \* index of the next URL of the image loop
    visual_type_used,   \* local visual_type_used
    attempts,           \* strategies the assembler tried to produce, in order
    xfade,              \* [duration, offsets] of the crossfade chain, or NoXfade
    renders,            \* render passes run for the multi-shot video, in order:
                        \* [kind, inputs, output]
    result,             \* (success, error_message, visual_type_used) or NoResult
    \* main(): the batch over the script's segments
    num_segments,       \* len(segments)
    no_credits,         \* args.no_credits
    main_pc,            \* position inside main
    seg_i,              \* loop index i of `for i, segment in enumerate(segments)`
    segment_videos,     \* local segment_videos: clip paths, in order
    successes,          \* success flag create_segment_video returned, per segment
    outro_created,      \* what create_outro_video returned (FALSE if not called)
    concat_file,        \* the lines written to concat.txt, in order
    \* the image search backends (search_images_pexels, search_images_unsplash)
    has_key,            \* per backend: get_api_key returns a non-empty key
    image_cache,        \* _IMAGE_CACHE: cache_key -> list of URLs
    last_api_call,      \* _LAST_API_CALL, in quarter seconds
    clock,              \* time.time(), in quarter seconds
    parallel,           \* the tasks run in a pool rather than one after another
    task,               \* per task: its search_f1_images call and position
    requests,           \* network requests started, in order
    calls,              \* search_images_* calls entered, per cache key
    \* the YouTube search of footage_downloader.py and of the assembler
    fn,                 \* the function called
    fpc,                \* "call" before it runs, "returned" after
    title,              \* score_result's argument title
    channel,            \* score_result's argument channel
    process,            \* what running yt-dlp does
    stdout,             \* the lines yt-dlp prints, parsed into fields
    max_results,        \* search_youtube_f1_clips' argument max_results
    returned,           \* [raised, value]: what the search gave its caller
    score,              \* what score_result returned, in hundredths
    \* the polling generators (generate_veo3_video, generate_runway_video)
    generator,          \* the generator that is running, or None
    gen_pc,             \* position inside the generator
    operation_done,     \* operation.done of generate_veo3_video
    waited,             \* local waited of generate_veo3_video, in seconds
    status,             \* status.status of generate_runway_video
    poll_count,         \* local poll_count of generate_runway_video
    polls,              \* status requests the generator has made
    generated,          \* what the generator returned: [success, error]
    scene_calls,        \* calls of generate_f1_scene by create_segment_video
    \* generate_srt_captions
    script,             \* script["segments"]: the text of each segment
    audio,              \* per segment: does the mp3 exist, what ffprobe prints
    cap_pc,             \* position inside generate_srt_captions
    cap_i,              \* loop index i
    current_time,       \* local current_time, in tenths of a millisecond
    srt_content,        \* local srt_content, the lines of the caption file
    \* download_segment_enhanced
    candidates,         \* what search_youtube_enhanced returned, ranked
    max_candidates,     \* parameter max_candidates
    validate,           \* parameter validate
    validate_fn,        \* is quick_validate in use
    rejects,            \* the downloads quick_validate rejects
    dl_pc,              \* position inside download_segment_enhanced
    dl_i,               \* index of the candidate the loop is at
    output_path,        \* the file at output_path: its content, or None
    temp_path,          \* the file at output_path + ".temp", or None
    trials,             \* the download_video calls made, in order
    dl_result,          \* what download_segment_enhanced returned
    \* batch mode of visual_router
    segments,           \* the script's segments: visual_type, output exists
    workers,            \* args.workers
    sequential,         \* args.sequential
    batch_pc,           \* position inside main's batch mode
    pending,            \* submitted calls no worker has started
    running,            \* calls a worker is executing
    futures,            \* per call: its result once it is complete
    yielded,            \* the results main has consumed, in order
    results,            \* the counters success, cached, failed
    invoked             \* segments for which a generator was invoked

\* the state of one create_segment_video call
assembler_vars ==
    << segment, use_veo3, use_talking_head, audio_duration, pc, locals,
       decision, num_clips, clip_duration, clip_files, effect_idx,
       yt_query, image_urls, image_i, visual_type_used, attempts, xfade,
       renders, result >>

\* the state of main
main_vars ==
    << num_segments, no_credits, main_pc, seg_i, segment_videos, successes,
       outro_created, concat_file >>

\* what a create_segment_video call leaves alone
\* the state of the image search backends and of the tasks calling them
search_vars ==
    << has_key, image_cache, last_api_call, clock, parallel, task, requests,
       calls >>

\* the state of a YouTube search or scoring call
footage_vars ==
    << fn, fpc, title, channel, process, stdout, max_results, returned, score >>

\* the state of a polling generator call
generator_vars ==
    << generator, gen_pc, operation_done, waited, status, poll_count, polls,
       generated, scene_calls >>

\* the state of a generate_srt_captions call
caption_vars == << script, audio, cap_pc, cap_i, current_time, srt_content >>

\* the state of a download_segment_enhanced call and of its two files
download_vars ==
    << candidates, max_candidates, validate, validate_fn, rejects, dl_pc, dl_i,
       output_path, temp_path, trials, dl_result >>

\* the state of visual_router's batch mode
batch_vars ==
    << segments, workers, sequential, batch_pc, pending, running, futures,
       yielded, results, invoked >>

\* what the polling generators leave alone beside the assembler
beside_generator == << caption_vars, download_vars, batch_vars >>

\* the state of the programs around the assembler
more_vars == << generator_vars, beside_generator >>

\* what the steps of create_segment_video outside its Veo3 block leave alone
elsewhere == << main_vars, search_vars, footage_vars, more_vars >>

vars == << assembler_vars, main_vars, search_vars, footage_vars, more_vars >>

----------------------------------------------------------------------------
(* Configuration *)

MIN_CLIP_DURATION == 3

MAX_CLIP_DURATION == 5

\* CROSSFADE_DURATION = 0.5 as the rational 1/2
CROSSFADE_DURATION == << 1, 2 >>

KEN_BURNS_EFFECTS == << "zoom_in", "zoom_out", "pan_left", "pan_right" >>

\* VisualType values
F1_IMAGE == "f1_image"
TALKING_HEAD == "talking_head"
YOUTUBE_CLIP == "youtube_clip"
QUOTE_OVERLAY == "quote_overlay"
VEO3_VIDEO == "veo3_video"

VisualType == { F1_IMAGE, TALKING_HEAD, YOUTUBE_CLIP, QUOTE_OVERLAY, VEO3_VIDEO }

\* Python's None for optional strings; never a value a text can take
None == "<None>"

\* Python truthiness of an Optional[str]
Truthy(x) == x # None /\ x # ""

----------------------------------------------------------------------------
(* F1 knowledge base: dicts as sequences of <<key, value>> in dict order *)

F1_DRIVERS ==
    << <<"verstappen", "Max Verstappen">>, <<"hamilton", "Lewis Hamilton">>,
       <<"leclerc", "Charles Leclerc">>, <<"norris", "Lando Norris">>,
       <<"sainz", "Carlos Sainz">>, <<"russell", "George Russell">>,
       <<"perez", "Sergio Perez">>, <<"alonso", "Fernando Alonso">>,
       <<"stroll", "Lance Stroll">>, <<"ocon", "Esteban Ocon">>,
       <<"gasly", "Pierre Gasly">>, <<"tsunoda", "Yuki Tsunoda">>,
       <<"ricciardo", "Daniel Ricciardo">>, <<"bottas", "Valtteri Bottas">>,
       <<"piastri", "Oscar Piastri">>, <<"lawson", "Liam Lawson">>,
       <<"antonelli", "Kimi Antonelli">>, <<"bearman", "Oliver Bearman">>,
       <<"schumacher", "Michael Schumacher">>, <<"senna", "Ayrton Senna">>,
       <<"vettel", "Sebastian Vettel">>, <<"raikkonen", "Kimi Raikkonen">>,
       <<"wolff", "Toto Wolff">>, <<"horner", "Christian Horner">>,
       <<"binotto", "Mattia Binotto">>, <<"brown", "Zak Brown">>,
       <<"newey", "Adrian Newey">>, <<"brawn", "Ross Brawn">> >>

F1_TEAMS ==
    << <<"red bull", "Red Bull Racing">>, <<"mercedes", "Mercedes F1">>,
       <<"ferrari", "Scuderia Ferrari">>, <<"mclaren", "McLaren F1">>,
       <<"aston martin", "Aston Martin F1">>, <<"alpine", "Alpine F1">>,
       <<"williams", "Williams Racing">>, <<"haas", "Haas F1">>,
       <<"sauber", "Sauber F1">>, <<"rb", "RB F1 Team">> >>

FUEL_PARTNERS ==
    << <<"aramco", "Saudi Aramco">>, <<"shell", "Shell">>,
       <<"petronas", "Petronas">>, <<"mobil", "ExxonMobil">>,
       <<"castrol", "Castrol">>, <<"bp", "BP">>, <<"gulf", "Gulf Oil">> >>

CONCEPT_KEYWORDS ==
    << "how", "why", "explain", "concept", "basically", "essentially",
       "fundamentally", "process", "mechanism", "chemistry", "physics",
       "engineering", "fischer-tropsch", "syngas", "catalyst", "molecule",
       "carbon capture", "efficiency", "thermal", "combustion",
       "compression ratio", "power unit", "mgu-h", "mgu-k", "hybrid" >>

ACTION_KEYWORDS ==
    << "race", "racing", "overtake", "crash", "pit stop", "start", "finish",
       "podium", "celebration", "onboard", "battle", "wheel to wheel",
       "championship", "victory", "dramatic" >>

VEO3_KEYWORDS ==
    << "future", "vision", "imagine", "revolution", "transformation",
       "evolution", "innovation", "breakthrough", "paradigm", "frontier",
       "molecular", "atomic", "chemical reaction", "synthesis",
       "production facility", "industrial", "manufacturing", "wind tunnel",
       "aerodynamic", "simulation" >>

VEO3_PROMPTS ==
    [ fuel_production |->
        "Industrial fuel production facility with advanced chemistry equipment, glowing reactors, sustainable energy, futuristic laboratory",
      carbon_capture |->
        "Carbon capture technology visualization, CO2 molecules being absorbed, green industrial facility, environmental technology",
      engine_tech |->
        "Formula 1 power unit internal visualization, turbo spinning, energy flow through MGU-K, high-tech engineering",
      wind_tunnel |->
        "F1 car in wind tunnel, smoke particles flowing over aerodynamic bodywork, technical testing facility",
      chemistry |->
        "Chemical synthesis process visualization, molecular bonds forming, laboratory equipment, scientific innovation",
      factory |->
        "High-tech F1 factory floor, carbon fiber components being manufactured, robotic precision, clean room environment",
      data_analysis |->
        "F1 data analysis visualization, telemetry streams, holographic displays, race strategy simulation",
      sustainable |->
        "Sustainable energy technology, green fuel production, environmental innovation, clean energy future" ]

----------------------------------------------------------------------------
(* Strings as Python handles them *)

Char(s, i) == SubSeq(s, i, i)

UpperChars == "ABCDEFGHIJKLMNOPQRSTUVWXYZ"
LowerChars == "abcdefghijklmnopqrstuvwxyz"

UpperSet == { Char(UpperChars, i) : i \in 1..Len(UpperChars) }
LowerSet == { Char(LowerChars, i) : i \in 1..Len(LowerChars) }

\* regex class [A-Z]
IsUpper(c) == c \in UpperSet

\* regex class [a-z]
IsLower(c) == c \in LowerSet

\* the lower-case letter of each upper-case letter
LowerOf ==
    [ c \in UpperSet |->
        Char(LowerChars, CHOOSE i \in 1..Len(UpperChars) : Char(UpperChars, i) = c) ]

LowerChar(c) == IF c \in UpperSet THEN LowerOf[c] ELSE c

\* s[i..j] lower-cased, the two halves joined
RECURSIVE LowerFrom(_, _, _)
LowerFrom(s, i, j) ==
    IF i > j THEN ""
    ELSE IF i = j THEN LowerChar(Char(s, i))
    ELSE LET m == (i + j) \div 2
         IN LowerFrom(s, i, m) \o LowerFrom(s, m + 1, j)

\* str.lower()
Lower(s) == LowerFrom(s, 1, Len(s))

\* `kw in s`
Contains(s, kw) ==
    \E i \in 1..(Len(s) - Len(kw) + 1) : SubSeq(s, i, i + Len(kw) - 1) = kw

\* s[p-1:].startswith(w), positions counted from 1
StartsWithAt(s, p, w) ==
    /\ p + Len(w) - 1 <= Len(s)
    /\ SubSeq(s, p, p + Len(w) - 1) = w

\* any(kw in s for kw in kws)
AnyKeyword(s, kws) == \E i \in 1..Len(kws) : Contains(s, kws[i])

Min(S) == CHOOSE x \in S : \A y \in S : x <= y

\* seq[:n]
Take(seq, n) == SubSeq(seq, 1, IF n < Len(seq) THEN n ELSE Len(seq))

\* `seq or default`
OrDefault(seq, default) == IF seq # << >> THEN seq ELSE default

----------------------------------------------------------------------------
(* detect_quote *)

QuoteChar == "\""

\* r'"([^"]{20,})"' : at least this many characters between the quotes
MinQuoteLen == 20

\* position of the first quote character after position i, 0 if none
NextQuote(text, i) ==
    LET J == { j \in (i + 1)..Len(text) : Char(text, j) = QuoteChar }
    IN IF J = {} THEN 0 ELSE Min(J)

\* re.search(r'"([^"]{20,})"', text).group(1), or None
QuoteMatch(text) ==
    LET Starts == { i \in 1..Len(text) :
                      /\ Char(text, i) = QuoteChar
                      /\ NextQuote(text, i) # 0
                      /\ NextQuote(text, i) - i - 1 >= MinQuoteLen }
    IN IF Starts = {} THEN None
       ELSE LET i == Min(Starts)
            IN SubSeq(text, i + 1, NextQuote(text, i) - 1)

\* last position of the longest [a-z]* run starting at i (i - 1 if empty)
RECURSIVE LowerRunEnd(_, _)
LowerRunEnd(s, i) ==
    IF i <= Len(s) /\ IsLower(Char(s, i)) THEN LowerRunEnd(s, i + 1) ELSE i - 1

\* [A-Z][a-z]+ at p: its last position, 0 if no match
WordEnd(s, p) ==
    IF p <= Len(s) /\ IsUpper(Char(s, p)) /\ LowerRunEnd(s, p + 1) >= p + 1
    THEN LowerRunEnd(s, p + 1) ELSE 0

\* ([A-Z][a-z]+ [A-Z][a-z]+) at p: its last position, 0 if no match
NameEnd(s, p) ==
    LET e == WordEnd(s, p)
    IN IF e = 0 \/ ~StartsWithAt(s, e + 1, " ") THEN 0 ELSE WordEnd(s, e + 2)

\* the four templates, each as (text before the name, text after the name)
speaker_patterns ==
    << [ pre  |-> { "" },
         post |-> { " said", " stated", " explained", " mentioned", " noted" } ],
       [ pre  |-> { "said ", "stated ", "explained " },
         post |-> { "" } ],
       [ pre  |-> { "as " },
         post |-> { " put it", " noted", " explained" } ],
       [ pre  |-> { "according to " },
         post |-> { "" } ] >>

\* the names the template captures when matched at position p
MatchAt(s, pat, p) ==
    { SubSeq(s, p + Len(pre), NameEnd(s, p + Len(pre))) :
        pre \in { x \in pat.pre :
                    /\ StartsWithAt(s, p, x)
                    /\ NameEnd(s, p + Len(x)) # 0
                    /\ \E post \in pat.post :
                          StartsWithAt(s, NameEnd(s, p + Len(x)) + 1, post) } }

\* re.search(pattern, text).group(1) (leftmost match), or None
SearchSpeaker(s, pat) ==
    LET P == { p \in 1..Len(s) : MatchAt(s, pat, p) # {} }
    IN IF P = {} THEN None ELSE CHOOSE n \in MatchAt(s, pat, Min(P)) : TRUE

\* first template that matches wins
RECURSIVE FirstPattern(_, _)
FirstPattern(s, k) ==
    IF k > Len(speaker_patterns) THEN None
    ELSE IF SearchSpeaker(s, speaker_patterns[k]) # None
         THEN SearchSpeaker(s, speaker_patterns[k])
         ELSE FirstPattern(s, k + 1)

SpeechWords == << "said", "stated", "explained", "according" >>

\* known F1 figure named next to a speech word
KnownFigure(text) ==
    LET text_lower == Lower(text)
        hits == SelectSeq(F1_DRIVERS,
                          LAMBDA e : /\ Contains(text_lower, e[1])
                                     /\ AnyKeyword(text_lower, SpeechWords))
    IN IF hits = << >> THEN None ELSE hits[1][2]

detect_quote(text) ==
    LET byPattern == FirstPattern(text, 1)
    IN [ speaker |-> IF Truthy(byPattern) THEN byPattern ELSE KnownFigure(text),
         quote   |-> QuoteMatch(text) ]

----------------------------------------------------------------------------
(* detect_f1_entities, get_veo3_prompt *)

\* values of the dict entries whose key occurs in text_lower, in dict order
EntityNames(dict, text_lower) ==
    LET hits == SelectSeq(dict, LAMBDA e : Contains(text_lower, e[1]))
    IN [ i \in 1..Len(hits) |-> hits[i][2] ]

detect_f1_entities(text) ==
    LET text_lower == Lower(text)
    IN [ drivers       |-> EntityNames(F1_DRIVERS, text_lower),
         teams         |-> EntityNames(F1_TEAMS, text_lower),
         fuel_partners |-> EntityNames(FUEL_PARTNERS, text_lower) ]

\* the topic buckets in the order get_veo3_prompt tests them
Veo3Buckets ==
    << << VEO3_PROMPTS.fuel_production,
          << "fuel production", "sustainable fuel", "synthetic fuel" >> >>,
       << VEO3_PROMPTS.carbon_capture,
          << "carbon capture", "co2", "carbon dioxide" >> >>,
       << VEO3_PROMPTS.engine_tech,
          << "power unit", "engine", "mgu", "turbo" >> >>,
       << VEO3_PROMPTS.wind_tunnel,
          << "wind tunnel", "aerodynamic", "downforce" >> >>,
       << VEO3_PROMPTS.chemistry,
          << "chemistry", "chemical", "molecule", "synthesis", "fischer-tropsch" >> >>,
       << VEO3_PROMPTS.factory,
          << "factory", "manufacturing", "production" >> >>,
       << VEO3_PROMPTS.data_analysis,
          << "data", "telemetry", "analysis", "strategy" >> >>,
       << VEO3_PROMPTS.sustainable,
          << "sustainable", "green", "environment", "future" >> >> >>

get_veo3_prompt(text, context) ==
    LET text_lower == Lower(text \o " " \o context)
        hits == SelectSeq(Veo3Buckets, LAMBDA b : AnyKeyword(text_lower, b[2]))
    IN IF hits = << >> THEN None ELSE hits[1][1]

----------------------------------------------------------------------------
(* route_visual *)

\* the local variables of route_visual
RouteLocals(seg) ==
    LET combined_text == seg.text \o " " \o seg.context \o " " \o seg.footage_query
        text_lower == Lower(combined_text)
        dq == detect_quote(seg.text)
        entities == detect_f1_entities(combined_text)
        drivers == Take(entities.drivers, 2)
        teams == Take(entities.teams, 2)
        partners == Take(entities.fuel_partners, 1)
    IN [ speaker |-> dq.speaker,
         quote   |-> dq.quote,
         search_queries |->
             [ i \in 1..Len(drivers) |-> drivers[i] \o " F1 2024" ]
             \o [ i \in 1..Len(teams) |-> teams[i] \o " F1 car" ]
             \o [ i \in 1..Len(partners) |-> partners[i] \o " F1" ]
             \o ( IF seg.footage_query # ""
                     /\ ~StartsWithAt(seg.footage_query, 1, "GRAPHIC:")
                  THEN << seg.footage_query >> ELSE << >> ),
         has_f1_content |-> \/ entities.drivers # << >>
                            \/ entities.teams # << >>
                            \/ entities.fuel_partners # << >>,
         is_concept |-> AnyKeyword(text_lower, CONCEPT_KEYWORDS),
         is_action  |-> AnyKeyword(text_lower, ACTION_KEYWORDS),
         is_veo3_suitable |-> AnyKeyword(text_lower, VEO3_KEYWORDS) ]

VisualDecision(primary, fallback, queries, speaker, quote, prompt, conf) ==
    [ primary_type   |-> primary,
      fallback_type  |-> fallback,
      search_queries |-> queries,
      speaker_name   |-> speaker,
      quote_text     |-> quote,
      veo3_prompt    |-> prompt,
      confidence     |-> conf ]

\* a quote rule that yields to recognized entities
HasQuoteUnlessEntities(L) ==
    Truthy(L.speaker) /\ Truthy(L.quote) /\ ~L.has_f1_content

\* `if speaker and quote:`
HasQuote(L) == Truthy(L.speaker) /\ Truthy(L.quote)

\* a quotation card that falls back to footage
QuoteDecisionFootage(L) ==
    VisualDecision(QUOTE_OVERLAY, YOUTUBE_CLIP,
                   << L.speaker \o " F1", L.speaker \o " portrait" >>,
                   L.speaker, L.quote, None, 95)

QuoteDecision(L) ==
    VisualDecision(QUOTE_OVERLAY, F1_IMAGE,
                   << L.speaker \o " F1", L.speaker \o " portrait" >>,
                   L.speaker, L.quote, None, 95)

\* a generated-scene rule that does not look at the flag
Veo3SuitableAnyFlag(L, uv) == L.is_veo3_suitable /\ ~L.has_f1_content

\* `if use_veo3 and is_veo3_suitable and not has_f1_content:`
Veo3Suitable(L, uv) == uv /\ L.is_veo3_suitable /\ ~L.has_f1_content

Veo3Decision(L, prompt) ==
    VisualDecision(VEO3_VIDEO, TALKING_HEAD,
                   OrDefault(L.search_queries, << "F1 technology" >>),
                   None, None, prompt, 85)

\* a footage rule that yields to concept keywords
WantsClipUnlessConcept(L) == L.is_action /\ L.has_f1_content /\ ~L.is_concept

\* `if is_action and has_f1_content:`
WantsClip(L) == L.is_action /\ L.has_f1_content

ClipDecision(seg, L) ==
    VisualDecision(YOUTUBE_CLIP, F1_IMAGE,
                   OrDefault(L.search_queries, << "F1 " \o seg.context >>),
                   None, None, None, 85)

\* `if has_f1_content and not is_concept:`
WantsImage(L) == L.has_f1_content /\ ~L.is_concept

ImageDecision(seg, L) ==
    VisualDecision(F1_IMAGE, TALKING_HEAD,
                   OrDefault(L.search_queries, << "F1 " \o seg.context >>),
                   None, None, None, 90)

\* a concept prompt resolved whatever the flag
ConceptPromptAnyFlag(seg, uv) == get_veo3_prompt(seg.text, seg.context)

\* `veo3_prompt = get_veo3_prompt(text, context) if use_veo3 else None`
ConceptPrompt(seg, uv) ==
    IF uv THEN get_veo3_prompt(seg.text, seg.context) ELSE None

ConceptDecision(seg, L, uv) ==
    VisualDecision(TALKING_HEAD,
                   IF Truthy(ConceptPrompt(seg, uv)) THEN VEO3_VIDEO ELSE F1_IMAGE,
                   OrDefault(L.search_queries,
                             << "F1 technology", "motorsport engineering" >>),
                   None, None, ConceptPrompt(seg, uv), 80)

DefaultDecision(L) ==
    VisualDecision(F1_IMAGE, TALKING_HEAD,
                   OrDefault(L.search_queries, << "Formula 1 racing", "F1 car" >>),
                   None, None, None, 60)

\* the decision cascade of route_visual over its locals
Decide(seg, L, uv) ==
    IF HasQuote(L) THEN QuoteDecision(L)
    ELSE IF Veo3Suitable(L, uv) /\ Truthy(get_veo3_prompt(seg.text, seg.context))
    THEN Veo3Decision(L, get_veo3_prompt(seg.text, seg.context))
    ELSE IF WantsClip(L) THEN ClipDecision(seg, L)
    ELSE IF WantsImage(L) THEN ImageDecision(seg, L)
    ELSE IF L.is_concept THEN ConceptDecision(seg, L, uv)
    ELSE DefaultDecision(L)

route_visual(seg, uv) == Decide(seg, RouteLocals(seg), uv)

----------------------------------------------------------------------------
(* Exact rational arithmetic for durations: <<numerator, denominator>>,   *)
(* denominator > 0                                                         *)

RECURSIVE GCD(_, _)
GCD(a, b) == IF b = 0 THEN a ELSE GCD(b, a % b)

Abs(x) == IF x < 0 THEN -x ELSE x

Rat(n, d) ==
    LET g == GCD(Abs(n), d) IN IF g = 0 THEN << 0, 1 >> ELSE << n \div g, d \div g >>

RLess(a, b) == a[1] * b[2] < b[1] * a[2]
RLeq(a, b) == a[1] * b[2] <= b[1] * a[2]
REq(a, b) == a[1] * b[2] = b[1] * a[2]
RAdd(a, b) == Rat(a[1] * b[2] + b[1] * a[2], a[2] * b[2])
RSub(a, b) == Rat(a[1] * b[2] - b[1] * a[2], a[2] * b[2])
RMulInt(a, k) == Rat(a[1] * k, a[2])
RDivInt(a, k) == Rat(a[1], a[2] * k)
RMin(a, b) == IF RLeq(a, b) THEN a ELSE b

\* int(x) for x >= 0
RInt(a) == a[1] \div a[2]

Zero == << 0, 1 >>

RECURSIVE RSum(_)
RSum(seq) == IF seq = << >> THEN Zero ELSE RAdd(Head(seq), RSum(Tail(seq)))

----------------------------------------------------------------------------
(* Shot planning and crossfade arithmetic of create_segment_video *)

\* a shot count that rounds up instead of adding one
NumClipsCeil(d) ==
    LET n == (d[1] + MAX_CLIP_DURATION * d[2] - 1) \div (MAX_CLIP_DURATION * d[2])
    IN IF n > 2 THEN n ELSE 2

\* num_clips = max(2, int(audio_duration / MAX_CLIP_DURATION) + 1)
NumClips(d) ==
    LET n == RInt(RDivInt(d, MAX_CLIP_DURATION)) + 1 IN IF n > 2 THEN n ELSE 2

\* clip_duration = audio_duration / num_clips
ClipDuration(d, n) == RDivInt(d, n)

\* this_duration of the shot that gets index clip_idx (counted from 0)
ThisDuration(d, n, clip_idx) ==
    IF clip_idx < n - 1 THEN ClipDuration(d, n)
    ELSE RSub(d, RMulInt(ClipDuration(d, n), clip_idx))

\* a crossfade of the fixed duration, however short the shots
XfadeDurationFixed(cd) == CROSSFADE_DURATION

\* xfade_duration = min(CROSSFADE_DURATION, clip_duration / 4)
XfadeDuration(cd) == RMin(CROSSFADE_DURATION, RDivInt(cd, 4))

\* the offsets of the xfade chain joining k clips, left to right
RECURSIVE XfadeOffsets(_, _, _)
XfadeOffsets(cd, xd, k) ==
    IF k <= 1 THEN << >>
    ELSE IF k = 2 THEN << RSub(cd, xd) >>
    ELSE LET prev == XfadeOffsets(cd, xd, k - 1)
         IN Append(prev, RAdd(prev[Len(prev)], RSub(cd, xd)))

\* a top-up that runs only when nothing was accepted
NeedMoreClipsWhenEmpty(files, n) == files = << >>

\* `if len(clip_files) < num_clips:` before the image search
NeedMoreClips(files, n) == Len(files) < n

----------------------------------------------------------------------------
(* Inputs *)

\* longest text is this many fragments
MaxFragments == 2

\* longest audio track, in half seconds
MaxAudioHalfSeconds == 26

\* most URLs search_f1_images returns
MaxImageUrls == 3

\* search_youtube_f1_clips(query, 2) and clips[:2]
YT_MAX_RESULTS == 2

\* decision.search_queries[:2]
YT_MAX_QUERIES == 2

TextFragments ==
    { "\"We pushed the car to its limit,\" said Lewis Hamilton.",
      "Hamilton won the race",
      "how the engine works",
      "why it matters",
      "imagine the future of fuel",
      "a new paradigm",
      "\"It was a truly incredible day for us\"",
      "according to Toto Wolff",
      "Verstappen explained",
      "carbon capture" }

\* texts of at most n fragments
RECURSIVE Texts(_)
Texts(n) ==
    IF n = 0 THEN { "" }
    ELSE Texts(n - 1) \cup TextFragments
         \cup { t \o " " \o f : t \in Texts(n - 1) \ { "" }, f \in TextFragments }

Contexts == { "", "wind tunnel testing" }

FootageQueries == { "", "GRAPHIC: fuel chart", "Red Bull pit stop" }

AudioDurations == { Rat(h, 2) : h \in 0..MaxAudioHalfSeconds }

NoLocals ==
    [ speaker |-> None, quote |-> None, search_queries |-> << >>,
      has_f1_content |-> FALSE, is_concept |-> FALSE, is_action |-> FALSE,
      is_veo3_suitable |-> FALSE ]

NoDecision == VisualDecision(None, None, << >>, None, None, None, 0)

NoXfade == [ computed |-> FALSE, duration |-> Zero, offsets |-> << >> ]

NoResult == [ success |-> FALSE, error |-> None, visual_type |-> None ]

Result(success, error, vtype) ==
    [ success |-> success, error |-> error, visual_type |-> vtype ]

\* the state at the call, whatever the arguments
Called ==
    /\ pc = "start"
    /\ locals = NoLocals
    /\ decision = NoDecision
    /\ num_clips = 0
    /\ clip_duration = Zero
    /\ clip_files = << >>
    /\ effect_idx = 0
    /\ yt_query = 1
    /\ image_urls = 0
    /\ image_i = 1
    /\ visual_type_used = None
    /\ attempts = << >>
    /\ xfade = NoXfade
    /\ renders = << >>
    /\ result = NoResult

\* main has not been entered
MainIdle ==
    /\ num_segments = 0
    /\ no_credits = FALSE
    /\ main_pc = "idle"
    /\ seg_i = 0
    /\ segment_videos = << >>
    /\ successes = << >>
    /\ outro_created = FALSE
    /\ concat_file = << >>

Backends == { "pexels", "unsplash" }

\* no image search has been made and none is running
SearchIdle ==
    /\ has_key = [ b \in Backends |-> FALSE ]
    /\ image_cache = << >>
    /\ last_api_call = 0
    /\ clock = 0
    /\ parallel = FALSE
    /\ task = << >>
    /\ requests = << >>
    /\ calls = << >>

\* no YouTube search or scoring call has been made
FootageIdle ==
    /\ fn = None
    /\ fpc = "idle"
    /\ title = ""
    /\ channel = ""
    /\ process = None
    /\ stdout = << >>
    /\ max_results = 0
    /\ returned = [ raised |-> FALSE, value |-> << >> ]
    /\ score = 0

NoGenerated == [ success |-> FALSE, error |-> None ]

\* no generator has been called
GeneratorIdle ==
    /\ generator = None
    /\ gen_pc = "idle"
    /\ operation_done = FALSE
    /\ waited = 0
    /\ status = None
    /\ poll_count = 0
    /\ polls = 0
    /\ generated = NoGenerated
    /\ scene_calls = 0

\* nothing around the assembler is running
\* no generate_srt_captions call
CaptionIdle ==
    /\ script = << >>
    /\ audio = << >>
    /\ cap_pc = "idle"
    /\ cap_i = 0
    /\ current_time = 0
    /\ srt_content = << >>

\* the (success, error) pair of a call that has not returned
NotReturned == [ success |-> FALSE, error |-> "<not returned>" ]

\* no download_segment_enhanced call
DownloadIdle ==
    /\ candidates = << >>
    /\ max_candidates = 0
    /\ validate = FALSE
    /\ validate_fn = FALSE
    /\ rejects = { }
    /\ dl_pc = "idle"
    /\ dl_i = 0
    /\ output_path = None
    /\ temp_path = None
    /\ trials = << >>
    /\ dl_result = NotReturned

\* no batch
BatchIdle ==
    /\ segments = << >>
    /\ workers = 0
    /\ sequential = FALSE
    /\ batch_pc = "idle"
    /\ pending = { }
    /\ running = { }
    /\ futures = << >>
    /\ yielded = << >>
    /\ results = [ success |-> 0, cached |-> 0, failed |-> 0 ]
    /\ invoked = { }

BesideGeneratorIdle == CaptionIdle /\ DownloadIdle /\ BatchIdle

MoreIdle == GeneratorIdle /\ BesideGeneratorIdle

\* a call of create_segment_video
Init ==
    /\ MainIdle
    /\ SearchIdle
    /\ FootageIdle
    /\ MoreIdle
    /\ segment \in [ text : Texts(1), context : { "" },
                     footage_query : { "", "Red Bull pit stop" } ]
    /\ use_veo3 \in BOOLEAN
    /\ use_talking_head \in BOOLEAN
    /\ audio_duration \in AudioDurations
    /\ Called

\* a call of route_visual alone, over texts, contexts and query overrides
RouteInit ==
    /\ MainIdle
    /\ SearchIdle
    /\ FootageIdle
    /\ MoreIdle
    /\ segment \in [ text : Texts(MaxFragments), context : Contexts,
                     footage_query : FootageQueries ]
    /\ use_veo3 \in BOOLEAN
    /\ use_talking_head = TRUE
    /\ audio_duration = Rat(1, 1)
    /\ Called

----------------------------------------------------------------------------
(* create_segment_video, step by step *)

Return(r) ==
    /\ result' = r
    /\ pc' = "done"

inputs == << segment, use_veo3, use_talking_head, audio_duration >>
routing == << locals, decision >>
plan == << num_clips, clip_duration >>
loops == << yt_query, image_urls, image_i >>
composition == << xfade, renders >>

\* an accepted shot; for a still image, `downloaded` is the value effect_idx
\* had when its effect was chosen (-1 for footage, which gets no effect)
Shot(kind, duration, effect, downloaded) ==
    [ kind |-> kind, duration |-> duration, effect |-> effect,
      downloaded |-> downloaded ]

\* the same effect for every image
KenBurnsFirst(idx) == KEN_BURNS_EFFECTS[1]

\* effect = KEN_BURNS_EFFECTS[effect_idx % len(KEN_BURNS_EFFECTS)]
KenBurnsEffect(idx) == KEN_BURNS_EFFECTS[(idx % Len(KEN_BURNS_EFFECTS)) + 1]

\* audio_duration <= 0: return False, "Invalid audio duration", ""
InvalidAudio ==
    /\ pc = "start"
    /\ RLeq(audio_duration, Zero)
    /\ Return(Result(FALSE, "Invalid audio duration", ""))
    /\ UNCHANGED << elsewhere, segment, use_veo3, use_talking_head, audio_duration, locals,
                    decision, num_clips, clip_duration, clip_files, effect_idx,
                    yt_query, image_urls, image_i, visual_type_used, attempts,
                    xfade, renders >>

\* decision = route_visual(segment, use_veo3=use_veo3)
Route ==
    /\ pc = "start"
    /\ RLess(Zero, audio_duration)
    /\ locals' = RouteLocals(segment)
    /\ decision' = Decide(segment, locals', use_veo3)
    /\ visual_type_used' = decision'.primary_type
    /\ pc' = "quote"
    /\ UNCHANGED << elsewhere, segment, use_veo3, use_talking_head, audio_duration,
                    num_clips, clip_duration, clip_files, effect_idx, yt_query,
                    image_urls, image_i, attempts, xfade, renders, result >>

\* "Handle quote overlays": one authoritative asset, no candidates
QuoteOverlay ==
    /\ pc = "quote"
    /\ IF /\ decision.primary_type = QUOTE_OVERLAY
          /\ Truthy(decision.speaker_name)
          /\ Truthy(decision.quote_text)
       THEN /\ attempts' = Append(attempts, QUOTE_OVERLAY)
            /\ \E success \in BOOLEAN :
                 IF success THEN Return(Result(TRUE, "", "quote_overlay"))
                 ELSE pc' = "veo3" /\ result' = result
       ELSE /\ attempts' = attempts
            /\ pc' = "veo3"
            /\ result' = result
    /\ UNCHANGED << elsewhere, inputs, routing, plan, loops, composition, clip_files,
                    effect_idx, visual_type_used >>

\* max_wait = 300, poll_interval = 10 of generate_veo3_video
MAX_WAIT == 300
POLL_INTERVAL == 10

\* max_polls = 120 of generate_runway_video
MAX_POLLS == 120

GenFailure(error) == [ success |-> FALSE, error |-> error ]
GenSuccess == [ success |-> TRUE, error |-> "" ]

\* a generator returns r to its caller
GenReturn(r) ==
    /\ generated' = r
    /\ gen_pc' = "returned"

\* what can happen on entering the Veo3 block: the import fails,
\* is_veo3_available says no, or generate_f1_scene is called
Veo3Outcomes == { "import_error", "unavailable", "available" }

\* "Handle Veo3 AI-generated video": up to the call of generate_f1_scene
Veo3 ==
    /\ pc = "veo3"
    /\ IF /\ decision.primary_type = VEO3_VIDEO
          /\ Truthy(decision.veo3_prompt)
          /\ use_veo3
       THEN /\ attempts' = Append(attempts, VEO3_VIDEO)
            /\ \E outcome \in Veo3Outcomes :
                 IF outcome = "available"
                 THEN /\ pc' = "veo3_generate"
                      /\ generator' = "generate_veo3_video"
                      /\ gen_pc' = "call"
                      /\ scene_calls' = scene_calls + 1
                 ELSE /\ pc' = "plan"
                      /\ UNCHANGED << generator, gen_pc, scene_calls >>
       ELSE /\ attempts' = attempts
            /\ pc' = "plan"
            /\ UNCHANGED << generator, gen_pc, scene_calls >>
    /\ UNCHANGED << main_vars, search_vars, footage_vars, beside_generator, operation_done, waited,
                    status, poll_count, polls, generated, inputs, routing, plan,
                    loops, composition, clip_files, effect_idx, visual_type_used,
                    result >>

\* generate_veo3_video up to its polling loop: client.models.generate_videos
\* raises (caught by `except Exception`) or hands back an operation
Veo3Submit ==
    /\ generator = "generate_veo3_video"
    /\ gen_pc = "call"
    /\ \E outcome \in { "raised", "submitted" } :
         IF outcome = "raised"
         THEN /\ GenReturn(GenFailure("Veo3 error"))
              /\ UNCHANGED operation_done
         ELSE /\ gen_pc' = "poll"
              /\ operation_done' \in BOOLEAN
              /\ generated' = generated
    /\ UNCHANGED << assembler_vars, main_vars, search_vars, footage_vars,
                    beside_generator,
                    generator, waited, status, poll_count, polls, scene_calls >>

\* a polling loop that has no deadline
Veo3KeepPollingForever(done, w) == ~done

\* `while not operation.done and waited < max_wait:`
Veo3KeepPolling(done, w) == ~done /\ w < MAX_WAIT

\* one iteration of the polling loop: sleep, then client.operations.get
Veo3Poll ==
    /\ generator = "generate_veo3_video"
    /\ gen_pc = "poll"
    /\ Veo3KeepPolling(operation_done, waited)
    /\ waited' = waited + POLL_INTERVAL
    /\ polls' = polls + 1
    /\ \E outcome \in { "raised", "pending", "done" } :
         IF outcome = "raised"
         THEN /\ GenReturn(GenFailure("Veo3 error"))
              /\ UNCHANGED operation_done
         ELSE /\ operation_done' = (outcome = "done")
              /\ UNCHANGED << gen_pc, generated >>
    /\ UNCHANGED << assembler_vars, main_vars, search_vars, footage_vars,
                    beside_generator,
                    generator, status, poll_count, scene_calls >>

\* after the loop: timeout, no video in the result, or download and save
Veo3PollEnd ==
    /\ generator = "generate_veo3_video"
    /\ gen_pc = "poll"
    /\ ~Veo3KeepPolling(operation_done, waited)
    /\ IF ~operation_done
       THEN GenReturn(GenFailure("Timeout waiting for Veo3"))
       ELSE \E outcome \in { "no_video", "raised", "too_small", "ok" } :
              GenReturn(
                IF outcome = "ok" THEN GenSuccess
                ELSE IF outcome = "no_video" THEN GenFailure("No video generated")
                ELSE IF outcome = "raised" THEN GenFailure("Veo3 error")
                ELSE GenFailure("Downloaded file is too small or missing"))
    /\ UNCHANGED << assembler_vars, main_vars, search_vars, footage_vars,
                    beside_generator,
                    generator, operation_done, waited, status, poll_count,
                    polls, scene_calls >>

\* the Veo3 block after generate_f1_scene returned: on success process the
\* clip and add the audio, otherwise "Veo3 failed ..., trying fallback"
Veo3Generated ==
    /\ pc = "veo3_generate"
    /\ gen_pc = "returned"
    /\ IF generated.success
       THEN \E outcome \in { "process_failed", "no_output", "ok" } :
              IF outcome = "ok" THEN Return(Result(TRUE, "", "veo3_video"))
              ELSE pc' = "plan" /\ result' = result
       ELSE pc' = "plan" /\ result' = result
    /\ generator' = None
    /\ gen_pc' = "idle"
    /\ operation_done' = FALSE
    /\ waited' = 0
    /\ polls' = 0
    /\ generated' = NoGenerated
    /\ UNCHANGED << main_vars, search_vars, footage_vars, beside_generator, status, poll_count,
                    scene_calls, inputs, routing, plan, loops, composition,
                    clip_files, effect_idx, visual_type_used, attempts >>

\* "Calculate how many clips we need"
PlanClips ==
    /\ pc = "plan"
    /\ num_clips' = NumClips(audio_duration)
    /\ clip_duration' = ClipDuration(audio_duration, num_clips')
    /\ clip_files' = << >>
    /\ effect_idx' = 0
    /\ pc' = "primary"
    /\ UNCHANGED << elsewhere, inputs, routing, loops, composition, visual_type_used,
                    attempts, result >>

\* the inner loop over clips[:2]: successes[k] says whether clip k downloads
\* and processes
RECURSIVE AcceptClips(_, _, _)
AcceptClips(files, outcomes, k) ==
    IF k > Len(outcomes) \/ Len(files) >= num_clips THEN files
    ELSE AcceptClips(
           IF outcomes[k]
           THEN Append(files,
                       Shot(YOUTUBE_CLIP,
                            ThisDuration(audio_duration, num_clips, Len(files)),
                            None, -1))
           ELSE files,
           outcomes, k + 1)

YoutubeQueries ==
    IF Len(decision.search_queries) < YT_MAX_QUERIES
    THEN Len(decision.search_queries) ELSE YT_MAX_QUERIES

\* one iteration of `for query in decision.search_queries[:2]`
YoutubeQuery ==
    /\ pc = "primary"
    /\ decision.primary_type = YOUTUBE_CLIP
    /\ yt_query <= YoutubeQueries
    /\ \E r \in 0..YT_MAX_RESULTS : \E outcomes \in [ 1..r -> BOOLEAN ] :
         clip_files' = AcceptClips(clip_files, outcomes, 1)
    /\ visual_type_used' =
         IF Len(clip_files') > Len(clip_files) THEN "youtube_clip"
         ELSE visual_type_used
    /\ attempts' = IF yt_query = 1 THEN Append(attempts, YOUTUBE_CLIP) ELSE attempts
    /\ yt_query' = yt_query + 1
    /\ pc' = IF yt_query' > YoutubeQueries THEN "images" ELSE "primary"
    /\ UNCHANGED << elsewhere, inputs, routing, plan, composition, image_urls, image_i,
                    effect_idx, result >>

\* `elif decision.primary_type == VisualType.TALKING_HEAD and use_talking_head`
TalkingHead ==
    /\ pc = "primary"
    /\ decision.primary_type = TALKING_HEAD
    /\ use_talking_head
    /\ attempts' = Append(attempts, TALKING_HEAD)
    /\ \E presenter_img \in BOOLEAN, created \in BOOLEAN :
         IF presenter_img /\ created THEN Return(Result(TRUE, "", "talking_head"))
         ELSE pc' = "images" /\ result' = result
    /\ UNCHANGED << elsewhere, inputs, routing, plan, loops, composition, clip_files,
                    effect_idx, visual_type_used >>

\* neither branch of "Try primary visual type first" applies
NoPrimaryBranch ==
    /\ pc = "primary"
    /\ decision.primary_type # YOUTUBE_CLIP
    /\ ~(decision.primary_type = TALKING_HEAD /\ use_talking_head)
    /\ pc' = "images"
    /\ UNCHANGED << elsewhere, inputs, routing, plan, loops, composition, clip_files,
                    effect_idx, visual_type_used, attempts, result >>

\* "Get F1 images if we need more clips or primary type was F1_IMAGE"
SearchImages ==
    /\ pc = "images"
    /\ IF NeedMoreClips(clip_files, num_clips)
       THEN /\ attempts' = Append(attempts, F1_IMAGE)
            /\ image_urls' \in 0..MaxImageUrls
            /\ image_i' = 1
            /\ pc' = "image_loop"
       ELSE /\ attempts' = attempts
            /\ UNCHANGED << image_urls, image_i >>
            /\ pc' = "fallback"
    /\ UNCHANGED << elsewhere, inputs, routing, plan, composition, yt_query, clip_files,
                    effect_idx, visual_type_used, result >>

\* one iteration of `for i, url in enumerate(image_urls)`
ImageCandidate ==
    /\ pc = "image_loop"
    /\ image_i <= image_urls
    /\ Len(clip_files) < num_clips
    /\ \E outcome \in { "download_failed", "clip_failed", "ok" } :
         /\ effect_idx' =
              IF outcome = "download_failed" THEN effect_idx ELSE effect_idx + 1
         /\ clip_files' =
              IF outcome = "ok"
              THEN Append(clip_files,
                     Shot(F1_IMAGE,
                          ThisDuration(audio_duration, num_clips, Len(clip_files)),
                          KenBurnsEffect(effect_idx), effect_idx))
              ELSE clip_files
         /\ visual_type_used' =
              IF outcome = "ok" THEN "f1_image" ELSE visual_type_used
    /\ image_i' = image_i + 1
    /\ UNCHANGED << elsewhere, inputs, routing, plan, composition, yt_query, image_urls,
                    pc, attempts, result >>

\* the image loop ends: URLs exhausted, or `break` on enough clips
ImagesDone ==
    /\ pc = "image_loop"
    /\ image_i > image_urls \/ Len(clip_files) >= num_clips
    /\ pc' = "fallback"
    /\ UNCHANGED << elsewhere, inputs, routing, plan, loops, composition, clip_files,
                    effect_idx, visual_type_used, attempts, result >>

\* a presenter fallback that ignores the talking-head option
PresenterFallbackAnyFlag(files, enabled) ==
    files = << >>

\* `if not clip_files and use_talking_head`
PresenterFallback(files, enabled) ==
    files = << >> /\ enabled

\* "Fallback to talking head if no clips created", then `if not clip_files`
TalkingHeadFallback ==
    /\ pc = "fallback"
    /\ IF PresenterFallback(clip_files, use_talking_head)
       THEN /\ attempts' = Append(attempts, TALKING_HEAD)
            /\ \E presenter_img \in BOOLEAN, created \in BOOLEAN :
                 IF presenter_img /\ created
                 THEN Return(Result(TRUE, "", "talking_head_fallback"))
                 ELSE Return(Result(FALSE, "No visuals created", ""))
       ELSE /\ attempts' = attempts
            /\ IF clip_files = << >>
               THEN Return(Result(FALSE, "No visuals created", ""))
               ELSE pc' = "compose" /\ result' = result
    /\ UNCHANGED << elsewhere, inputs, routing, plan, loops, composition, clip_files,
                    effect_idx, visual_type_used >>

\* "If only one clip, add audio and done"
SingleClip ==
    /\ pc = "compose"
    /\ Len(clip_files) = 1
    /\ \E exists \in BOOLEAN : Return(Result(exists, "", visual_type_used))
    /\ UNCHANGED << elsewhere, inputs, routing, plan, loops, composition, clip_files,
                    effect_idx, visual_type_used, attempts >>

\* one ffmpeg pass over the shots: its kind, the shots it is given, in
\* order, and whether temp_video exists afterwards
Render(kind, inputs_, output) ==
    [ kind |-> kind, inputs |-> inputs_, output |-> output ]

\* a composition that gives up after the crossfade pass
RetryConcatNever(temp_video) == FALSE

\* `if not os.path.exists(temp_video):` after the crossfade pass
RetryConcat(temp_video) == ~temp_video

\* "Create crossfade transitions" and the xfade render
Crossfade ==
    /\ pc = "compose"
    /\ Len(clip_files) >= 2
    /\ xfade' = [ computed |-> TRUE,
                  duration |-> XfadeDuration(clip_duration),
                  offsets  |-> XfadeOffsets(clip_duration,
                                            XfadeDuration(clip_duration),
                                            Len(clip_files)) ]
    /\ \E temp_video \in BOOLEAN :
         /\ renders' = Append(renders, Render("xfade", clip_files, temp_video))
         /\ pc' = IF RetryConcat(temp_video) THEN "concat" ELSE "mux"
    /\ UNCHANGED << elsewhere, inputs, routing, plan, loops, clip_files, effect_idx,
                    visual_type_used, attempts, result >>

\* "Fallback: simple concat"
ConcatFallback ==
    /\ pc = "concat"
    /\ \E temp_video \in BOOLEAN :
         /\ renders' = Append(renders, Render("concat", clip_files, temp_video))
         /\ IF temp_video THEN pc' = "mux" /\ result' = result
            ELSE Return(Result(FALSE, "Failed to create transition video", ""))
    /\ UNCHANGED << elsewhere, inputs, routing, plan, loops, xfade, clip_files, effect_idx,
                    visual_type_used, attempts >>

\* "Add audio"
AddAudio ==
    /\ pc = "mux"
    /\ \E exists \in BOOLEAN :
         IF exists THEN Return(Result(TRUE, "", visual_type_used))
         ELSE Return(Result(FALSE, "Failed to add audio", ""))
    /\ UNCHANGED << elsewhere, inputs, routing, plan, loops, composition, clip_files,
                    effect_idx, visual_type_used, attempts >>

Next ==
    \/ InvalidAudio
    \/ Route
    \/ QuoteOverlay
    \/ Veo3
    \/ Veo3Submit
    \/ Veo3Poll
    \/ Veo3PollEnd
    \/ Veo3Generated
    \/ PlanClips
    \/ YoutubeQuery
    \/ TalkingHead
    \/ NoPrimaryBranch
    \/ SearchImages
    \/ ImageCandidate
    \/ ImagesDone
    \/ TalkingHeadFallback
    \/ SingleClip
    \/ Crossfade
    \/ ConcatFallback
    \/ AddAudio

Spec == Init /\ [][Next]_vars

RouteNext == Route

RouteSpec == RouteInit /\ [][RouteNext]_vars

----------------------------------------------------------------------------
(* Properties of route_visual, checked under RouteSpec *)

Routed == pc = "quote"

\* C1: whenever detect_quote returns both a speaker and a quote for the
\* segment text, route_visual returns QUOTE_OVERLAY with confidence 0.95,
\* whatever entities and keywords text, context and query override contain.
C1_QuoteWins ==
    ( /\ Routed
      /\ Truthy(detect_quote(segment.text).speaker)
      /\ Truthy(detect_quote(segment.text).quote) )
    => /\ decision.primary_type = QUOTE_OVERLAY
       /\ decision.confidence = 95

\* a quote with speaker amid entities and action, concept and abstract keywords
C1_Witness ==
    /\ Routed
    /\ Truthy(locals.speaker) /\ Truthy(locals.quote)
    /\ locals.has_f1_content /\ locals.is_action
    /\ locals.is_concept /\ locals.is_veo3_suitable
    /\ decision.primary_type = QUOTE_OVERLAY

\* the routing predicates of the routed segment
PQuote == Truthy(locals.speaker) /\ Truthy(locals.quote)
PPrompt == Truthy(get_veo3_prompt(segment.text, segment.context))
PRule2 == use_veo3 /\ locals.is_veo3_suitable /\ ~locals.has_f1_content /\ PPrompt

\* primary strategy and confidence of the first applicable rule
FirstApplicableRule ==
    IF PQuote THEN << QUOTE_OVERLAY, 95 >>
    ELSE IF PRule2 THEN << VEO3_VIDEO, 85 >>
    ELSE IF locals.is_action /\ locals.has_f1_content THEN << YOUTUBE_CLIP, 85 >>
    ELSE IF locals.has_f1_content /\ ~locals.is_concept THEN << F1_IMAGE, 90 >>
    ELSE IF locals.is_concept THEN << TALKING_HEAD, 80 >>
    ELSE << F1_IMAGE, 60 >>

\* C2: primary strategy and confidence are those of the first applicable
\* rule in the order quote, generated scene, footage, image, concept,
\* default; action+entities+concept yields footage, and the generated-scene
\* rule wins over the concept rule.
C2_RuleOrder ==
    Routed =>
      /\ << decision.primary_type, decision.confidence >> = FirstApplicableRule
      /\ ( ~PQuote /\ ~PRule2 /\ locals.is_action /\ locals.has_f1_content
           /\ locals.is_concept ) => decision.primary_type = YOUTUBE_CLIP
      /\ ( ~PQuote /\ PRule2 /\ locals.is_concept )
           => decision.primary_type = VEO3_VIDEO

\* action keyword, entities and concept keyword together, no quote
C2_Witness ==
    /\ Routed
    /\ ~PQuote
    /\ locals.is_action /\ locals.has_f1_content /\ locals.is_concept
    /\ decision.primary_type = YOUTUBE_CLIP
    /\ decision.confidence = 85

\* C3 as claimed: a quotation card falls back to reference footage.
C3_QuoteFallbackFootage ==
    ( Routed /\ decision.primary_type = QUOTE_OVERLAY )
    => decision.fallback_type = YOUTUBE_CLIP

\* C3: whenever route_visual selects the quotation card, the decision's
\* fallback strategy is the static image.
C3_QuoteFallbackImage ==
    ( Routed /\ decision.primary_type = QUOTE_OVERLAY )
    => decision.fallback_type = F1_IMAGE

\* a quotation card was selected
C3_Witness ==
    /\ Routed
    /\ decision.primary_type = QUOTE_OVERLAY
    /\ decision.speaker_name = "Lewis Hamilton"

\* C4 as claimed: the synthetic presenter falls back to the generated scene
\* exactly when a scene prompt resolves for text and context.
C4_ConceptFallbackByPrompt ==
    ( Routed /\ decision.primary_type = TALKING_HEAD )
    => decision.fallback_type = IF PPrompt THEN VEO3_VIDEO ELSE F1_IMAGE

\* C4: the synthetic presenter falls back to the generated scene exactly
\* when the generated-scene flag is on and a scene prompt resolves for text
\* and context, and to the static image otherwise.
C4_ConceptFallbackByFlagAndPrompt ==
    ( Routed /\ decision.primary_type = TALKING_HEAD )
    => /\ decision.confidence = 80
       /\ decision.fallback_type =
            IF use_veo3 /\ PPrompt THEN VEO3_VIDEO ELSE F1_IMAGE

\* concept segment whose prompt resolves while the flag is off
C4_Witness ==
    /\ Routed
    /\ decision.primary_type = TALKING_HEAD
    /\ ~use_veo3
    /\ PPrompt
    /\ decision.fallback_type = F1_IMAGE

----------------------------------------------------------------------------
(* Properties of create_segment_video, checked under Spec *)

\* the durations assigned to the accepted shots
ShotDurations == [ i \in 1..Len(clip_files) |-> clip_files[i].duration ]

\* the shots are handed to the composition step
Composing == pc \in { "compose", "concat", "mux" }

\* C5 as claimed: in every composition, whatever the number of accepted
\* shots between 1 and num_clips, the shot durations sum to the target
\* (audio) duration.
C5_DurationsSumToTarget ==
    Composing => REq(RSum(ShotDurations), audio_duration)

\* number of planned shots has been computed
Planned == num_clips > 0

\* ceil(audio_duration / MAX_CLIP_DURATION)
CeilShots ==
    -( (-audio_duration[1]) \div (MAX_CLIP_DURATION * audio_duration[2]) )

Max2(n) == IF n > 2 THEN n ELSE 2

\* audio_duration is a whole multiple of MAX_CLIP_DURATION
ExactMultiple ==
    audio_duration[1] % (MAX_CLIP_DURATION * audio_duration[2]) = 0

\* C6 as claimed: the planned number of shots is max(2, ceil(d / 5)), also
\* at exact multiples of the maximum shot duration.
C6_ShotsAreCeil ==
    Planned => num_clips = Max2(CeilShots)

\* C6: the planned number of shots n is 2 for a target below 10 s and
\* otherwise the n with 5(n-1) <= d < 5n, that is max(2, floor(d / 5) + 1);
\* it equals max(2, ceil(d / 5)) except at exact multiples of 5 s from 10 s
\* up, where it is one more; for 13.0 s it is 3.
C6_ShotsAreFloorPlusOne ==
    Planned =>
      /\ num_clips >= 2
      /\ RLess(audio_duration, Rat(MAX_CLIP_DURATION * num_clips, 1))
      /\ num_clips > 2 =>
           RLeq(Rat(MAX_CLIP_DURATION * (num_clips - 1), 1), audio_duration)
      /\ IF ExactMultiple /\ CeilShots >= 2
         THEN num_clips = CeilShots + 1
         ELSE num_clips = Max2(CeilShots)
      /\ REq(audio_duration, Rat(13, 1)) => num_clips = 3

\* a 10 s target planned as three shots
C6_Witness ==
    /\ Planned
    /\ REq(audio_duration, Rat(10, 1))
    /\ num_clips = 3

\* C7: with N >= 2 accepted shots the crossfade lasts
\* min(CROSSFADE_DURATION, shot_duration / 4); the N-1 offsets are
\* offset_0 = d_0 - t and offset_k = offset_(k-1) + d_k - t, strictly
\* increasing, and the last offset plus t does not exceed the target.
C7_CrossfadeOffsets ==
    xfade.computed =>
      LET N == Len(clip_files)
          t == xfade.duration
          off == xfade.offsets
      IN /\ N >= 2
         /\ Len(off) = N - 1
         /\ \A i \in 1..N :
              REq(t, RMin(CROSSFADE_DURATION, RDivInt(clip_files[i].duration, 4)))
         /\ REq(off[1], RSub(clip_files[1].duration, t))
         /\ \A k \in 2..(N - 1) :
              /\ REq(off[k], RSub(RAdd(off[k - 1], clip_files[k].duration), t))
              /\ RLess(off[k - 1], off[k])
         /\ RLeq(RAdd(off[N - 1], t), audio_duration)

\* a chain of at least two crossfades
C7_Witness ==
    /\ xfade.computed
    /\ Len(xfade.offsets) >= 2
    /\ Len(clip_files) = num_clips

\* exactly one shot was produced and the loops are over
OneShotProduced ==
    /\ pc \in { "compose", "done" }
    /\ Len(clip_files) = 1

\* C8 as claimed: when exactly one shot is produced no crossfade is computed
\* and the shot's duration is the target (audio) duration.
C8_SingleShotFillsTarget ==
    OneShotProduced =>
      /\ ~xfade.computed
      /\ REq(clip_files[1].duration, audio_duration)

\* the strategy was tried at some point
Attempted(s) == \E i \in 1..Len(attempts) : attempts[i] = s

\* C9 as claimed: when the primary strategy was tried and produced no usable
\* output, the strategy tried next is the decision's declared fallback.
C9_NextAttemptIsFallback ==
    ( /\ Len(attempts) >= 2
      /\ attempts[1] = decision.primary_type )
    => attempts[2] = decision.fallback_type

\* accepted shots of the given kind
ShotsOfKind(kind) ==
    Cardinality({ i \in 1..Len(clip_files) : clip_files[i].kind = kind })

MultiShotPrimary == decision.primary_type \in { YOUTUBE_CLIP, F1_IMAGE }

\* C10 as claimed: with a multi-shot primary, once at least one of its shots
\* is accepted no candidate of the fallback strategy is fetched, and the
\* segment is composed of the primary's shots alone.
C10_NoFallbackAfterOneShot ==
    ( MultiShotPrimary /\ ShotsOfKind(decision.primary_type) >= 1 )
    => /\ ~Attempted(decision.fallback_type)
       /\ Composing => ShotsOfKind(decision.primary_type) = Len(clip_files)

\* the footage loop is over
FootageLoopDone ==
    pc \notin { "start", "quote", "veo3", "veo3_generate", "plan", "primary", "images" }

\* C10: with static-image primary, the fallback (synthetic presenter) is
\* entered only when zero shots were accepted, and one or more accepted
\* shots, even fewer than planned, are composed as they are.  With
\* reference-footage primary, fewer accepted footage shots than planned make
\* the assembler fetch static-image candidates to fill the remaining shots;
\* the segment is composed of the accepted footage shots followed by the
\* accepted image shots, and the synthetic presenter is entered only when
\* zero shots of either kind were accepted.
C10_TopUpThenFallback ==
    MultiShotPrimary =>
      /\ Attempted(TALKING_HEAD) => clip_files = << >>
      /\ Composing => /\ Len(clip_files) >= 1
                      /\ Len(clip_files) <= num_clips
      /\ decision.primary_type = F1_IMAGE =>
           /\ ShotsOfKind(F1_IMAGE) = Len(clip_files)
           /\ ~Attempted(YOUTUBE_CLIP)
      /\ decision.primary_type = YOUTUBE_CLIP =>
           /\ FootageLoopDone =>
                ( Attempted(F1_IMAGE) <=> ShotsOfKind(YOUTUBE_CLIP) < num_clips )
           /\ \A i, j \in 1..Len(clip_files) :
                ( clip_files[i].kind = F1_IMAGE /\ clip_files[j].kind = YOUTUBE_CLIP )
                => j < i

\* footage primary composed of one footage shot topped up with an image shot
C10_Witness ==
    /\ decision.primary_type = YOUTUBE_CLIP
    /\ Composing
    /\ ShotsOfKind(YOUTUBE_CLIP) = 1
    /\ ShotsOfKind(F1_IMAGE) >= 1
    /\ Len(clip_files) < num_clips
----------------------------------------------------------------------------
(* Zero usable shots, checked under Spec *)

LastAttempt == IF attempts = << >> THEN None ELSE attempts[Len(attempts)]

NoVisuals == pc = "done" /\ result.error = "No visuals created"

\* the image loop is over and the call has returned with no shot accepted
ZeroShots == pc = "done" /\ clip_files = << >> /\ Attempted(F1_IMAGE)

\* C11 as stated: a segment is reported failed with "No visuals created"
\* only after the synthetic presenter was attempted as the last strategy
C11_PresenterBeforeFailure ==
    NoVisuals => LastAttempt = TALKING_HEAD

\* C11: with zero usable shots and use_talking_head on, the synthetic presenter
\* is attempted after the image search and the segment fails with "No visuals
\* created" only if that attempt produces no output; with use_talking_head off
\* the presenter is never attempted and the segment fails at once
C11_PresenterBeforeFailureWhenEnabled ==
    /\ NoVisuals => ZeroShots
    /\ ZeroShots =>
         IF use_talking_head
         THEN /\ LastAttempt = TALKING_HEAD
              /\ attempts[Len(attempts) - 1] = F1_IMAGE
              /\ \/ NoVisuals
                 \/ result = Result(TRUE, "", "talking_head_fallback")
         ELSE /\ ~Attempted(TALKING_HEAD)
              /\ NoVisuals

C11_Witness ==
    /\ NoVisuals
    /\ use_talking_head
    /\ LastAttempt = TALKING_HEAD
    /\ decision.primary_type = YOUTUBE_CLIP

----------------------------------------------------------------------------
(* main: the batch over the script's segments (lines 1259-1307) *)

MaxSegments == 3

Digits == "0123456789"

\* str(n) for n >= 0
RECURSIVE Decimal(_)
Decimal(n) ==
    IF n < 10 THEN Char(Digits, n + 1)
    ELSE Decimal(n \div 10) \o Char(Digits, (n % 10) + 1)

\* f"{n:02d}"
Pad2(n) == IF n < 10 THEN "0" \o Decimal(n) ELSE Decimal(n)

\* output_path = f"{temp_dir}/segment_{i:02d}.mp4", relative to temp_dir
SegmentPath(i) == "segment_" \o Pad2(i) \o ".mp4"

\* outro_path = f"{temp_dir}/outro.mp4", relative to temp_dir
OutroPath == "outro.mp4"

\* no create_segment_video call is in progress
AssemblerIdle ==
    /\ segment = [ text |-> "", context |-> "", footage_query |-> "" ]
    /\ use_veo3 = FALSE
    /\ use_talking_head = TRUE
    /\ audio_duration = Zero
    /\ Called

\* main is entered with a script of num_segments segments
MainInit ==
    /\ AssemblerIdle
    /\ MoreIdle
    /\ SearchIdle
    /\ FootageIdle
    /\ num_segments \in 0..MaxSegments
    /\ no_credits \in BOOLEAN
    /\ main_pc = "audio"
    /\ seg_i = 0
    /\ segment_videos = << >>
    /\ successes = << >>
    /\ outro_created = FALSE
    /\ concat_file = << >>

\* "Check audio": `if missing: sys.exit(1)`; an empty script misses nothing
CheckAudio ==
    /\ main_pc = "audio"
    /\ \E missing \in BOOLEAN :
         /\ missing => num_segments > 0
         /\ main_pc' = IF missing THEN "missing_audio" ELSE "loop"
    /\ UNCHANGED << assembler_vars, more_vars, search_vars, footage_vars, num_segments, no_credits, seg_i,
                    segment_videos, successes, outro_created, concat_file >>

\* a loop that lists the clip of a failed segment too
AppendVideoAlways(videos, path, success) ==
    Append(videos, path)

\* `if success: segment_videos.append(output_path)`, else only a message
AppendVideo(videos, path, success) ==
    IF success THEN Append(videos, path) ELSE videos

\* a loop that stops at the first failed segment
NextSegmentUnlessFailed(i, success) ==
    IF success THEN i + 1 ELSE num_segments

\* enumerate(segments) goes on to the next index whatever the outcome
NextSegment(i, success) ==
    i + 1

\* one iteration of the segment loop; create_segment_video's result is the
\* (success, error, visual type) triple of which main uses success only
ProcessSegment ==
    /\ main_pc = "loop"
    /\ seg_i < num_segments
    /\ \E success \in BOOLEAN :
         /\ segment_videos' = AppendVideo(segment_videos, SegmentPath(seg_i), success)
         /\ successes' = Append(successes, success)
         /\ seg_i' = NextSegment(seg_i, success)
    /\ UNCHANGED << assembler_vars, more_vars, search_vars, footage_vars, num_segments, no_credits, main_pc,
                    outro_created, concat_file >>

\* `if not segment_videos: sys.exit(1)`
NoSegmentsCreated ==
    /\ main_pc = "loop"
    /\ seg_i >= num_segments
    /\ segment_videos = << >>
    /\ main_pc' = "no_segments"
    /\ UNCHANGED << assembler_vars, more_vars, search_vars, footage_vars, num_segments, no_credits, seg_i,
                    segment_videos, successes, outro_created, concat_file >>

\* "Outro": `if not args.no_credits` and create_outro_video succeeds
Outro ==
    /\ main_pc = "loop"
    /\ seg_i >= num_segments
    /\ segment_videos # << >>
    /\ IF ~no_credits
       THEN \E created \in BOOLEAN :
              /\ outro_created' = created
              /\ segment_videos' =
                   IF created THEN Append(segment_videos, OutroPath)
                   ELSE segment_videos
       ELSE UNCHANGED << outro_created, segment_videos >>
    /\ main_pc' = "concat"
    /\ UNCHANGED << assembler_vars, more_vars, search_vars, footage_vars, num_segments, no_credits, seg_i, successes,
                    concat_file >>

\* "Concatenate": one `file '<path>'` line per element of segment_videos
Concatenate ==
    /\ main_pc = "concat"
    /\ concat_file' = segment_videos
    /\ main_pc' = "done"
    /\ UNCHANGED << assembler_vars, more_vars, search_vars, footage_vars, num_segments, no_credits, seg_i,
                    segment_videos, successes, outro_created >>

MainNext ==
    \/ CheckAudio
    \/ ProcessSegment
    \/ NoSegmentsCreated
    \/ Outro
    \/ Concatenate

MainSpec == MainInit /\ [][MainNext]_vars

----------------------------------------------------------------------------
(* Properties of main, checked under MainSpec *)

LoopOver == main_pc \in { "no_segments", "concat", "done" }

SomeSucceeded == \E k \in 1..Len(successes) : successes[k]

RECURSIVE SuccessfulClips(_)
SuccessfulClips(k) ==
    IF k = 0 THEN << >>
    ELSE IF successes[k] THEN Append(SuccessfulClips(k - 1), SegmentPath(k - 1))
         ELSE SuccessfulClips(k - 1)

\* C13: the list written for concatenation is the clips of the successful
\* segments in ascending index order, failed ones left out, then the outro
\* clip when one was created; no clip occurs twice
C13_ConcatOrder ==
    main_pc = "done" =>
      /\ concat_file =
           SuccessfulClips(num_segments)
             \o (IF outro_created THEN << OutroPath >> ELSE << >>)
      /\ \A a, b \in 1..Len(concat_file) : a # b => concat_file[a] # concat_file[b]
      /\ no_credits => ~outro_created

C13_Witness ==
    /\ main_pc = "done"
    /\ outro_created
    /\ concat_file = << SegmentPath(0), SegmentPath(2), OutroPath >>

----------------------------------------------------------------------------
(* Image search: search_images_pexels, search_images_unsplash and their     *)
(* caller search_f1_images (lines 368-475).  Times are in quarter seconds.  *)

\* API_RATE_LIMIT_DELAY = 0.5 s
API_RATE_LIMIT_DELAY == 2

\* `for query in queries[:4]`
MAX_IMAGE_QUERIES == 4

MaxQueries == 2
MaxPerQuery == 2
MaxElapsed == 3

\* the tasks, in the order they are submitted
TaskOrder == << "a", "b" >>

Tasks == { TaskOrder[j] : j \in 1..Len(TaskOrder) }

\* the tasks submitted before t
Earlier(t) == { TaskOrder[j] : j \in 1..((CHOOSE k \in 1..Len(TaskOrder) : TaskOrder[k] = t) - 1) }

SearchQueries == { "Hamilton", "F1 car" }

RECURSIVE Lists(_, _)
Lists(S, n) ==
    IF n = 0 THEN { << >> }
    ELSE Lists(S, n - 1)
           \cup { Append(l, x) : l \in { m \in Lists(S, n - 1) : Len(m) = n - 1 },
                                 x \in S }

\* f1_query = f"{query} Formula 1" if "f1" not in query.lower() else query
F1Query(query) ==
    IF ~Contains(Lower(query), "f1") THEN query \o " Formula 1" ELSE query

\* cache_key = f"pexels_{query}_{num_images}" / f"unsplash_{query}_{num_images}"
CacheKey(backend, query, num_images) ==
    backend \o "_" \o query \o "_" \o Decimal(num_images)

\* the first k URLs a backend lists
Urls(backend, k) == [ j \in 1..k |-> backend \o "/" \o Decimal(j) ]

\* what urlopen and the parse of the response can do for a request of n
\* images: raise before any URL is read, yield k <= n well-formed photos, or
\* yield k well-formed photos and then one without the expected fields
Responses(backend, n) ==
    { [ kind |-> "error", urls |-> << >> ] }
      \cup { [ kind |-> "ok", urls |-> Urls(backend, k) ] : k \in 0..n }
      \cup { [ kind |-> "malformed", urls |-> Urls(backend, k) ] : k \in 1..(n - 1) }

\* _IMAGE_CACHE[cache_key] = urls
CachePut(cache, key, urls) ==
    [ k \in DOMAIN cache \cup { key } |-> IF k = key THEN urls ELSE cache[k] ]

\* a search that never fills the cache
CacheStoreNever(cache, key, response) ==
    cache

\* the store is the last statement of the try block: skipped on any exception
CacheStore(cache, key, response) ==
    IF response.kind = "ok" THEN CachePut(cache, key, response.urls) ELSE cache

\* a search that does not look at the key
NoCredentialsIgnored(keys, backend) ==
    FALSE

\* `if not api_key: return []`
NoCredentials(keys, backend) ==
    ~keys[backend]

\* a rate limiter that never waits
SleepForNothing(now, last) ==
    0

\* elapsed = time.time() - _LAST_API_CALL; the argument of time.sleep, or 0
SleepFor(now, last) ==
    IF now - last < API_RATE_LIMIT_DELAY
    THEN API_RATE_LIMIT_DELAY - (now - last) ELSE 0

\* a request that leaves the timestamp as it was
StampKept(now, last) ==
    last

\* _LAST_API_CALL = time.time()
Stamp(now, last) ==
    now

\* "Remove duplicates while preserving order"
RECURSIVE Dedupe(_)
Dedupe(urls) ==
    IF urls = << >> THEN << >>
    ELSE LET front == Dedupe(SubSeq(urls, 1, Len(urls) - 1))
             last == urls[Len(urls)]
         IN IF \E j \in 1..Len(front) : front[j] = last THEN front
            ELSE Append(front, last)

\* a task about to call search_f1_images(queries, num_per_query)
NewTask(queries, num_per_query) ==
    [ pc |-> "idle", queries |-> queries, num_per_query |-> num_per_query,
      qi |-> 1, backend |-> None, query |-> None, num_images |-> 0,
      how |-> None, wake |-> 0, request |-> 0, urls |-> << >>, all_urls |-> << >>,
      result |-> << >> ]

SearchStart ==
    /\ AssemblerIdle
    /\ MoreIdle
    /\ MainIdle
    /\ FootageIdle
    /\ has_key \in [ Backends -> BOOLEAN ]
    /\ image_cache = << >>
    /\ last_api_call = 0
    /\ clock = API_RATE_LIMIT_DELAY
    /\ \E n \in 1..MaxPerQuery :
         \E qs \in [ Tasks -> Lists(SearchQueries, MaxQueries) ] :
           /\ Len(qs[TaskOrder[1]]) + Len(qs[TaskOrder[2]]) <= MaxQueries
           /\ task = [ t \in Tasks |-> NewTask(qs[t], n) ]
    /\ requests = << >>
    /\ calls = << >>

\* the tasks run one after another, as in main's loop
SearchInit == SearchStart /\ parallel = FALSE

\* the tasks run in a thread pool
PoolInit ==
    /\ SearchStart
    /\ parallel = TRUE
    /\ \A t \in Tasks : Len(task[t].queries) = 1

\* time passes
Tick ==
    /\ clock < API_RATE_LIMIT_DELAY + MaxElapsed
    /\ clock' = clock + 1
    /\ UNCHANGED << assembler_vars, more_vars, main_vars, footage_vars, has_key, image_cache,
                    last_api_call, parallel, task, requests, calls >>

\* a task enters search_f1_images
Begin(t) ==
    /\ task[t].pc = "idle"
    /\ parallel \/ \A u \in Earlier(t) : task[u].pc = "done"
    /\ task' = [ task EXCEPT ![t].pc = "query" ]
    /\ UNCHANGED << assembler_vars, more_vars, main_vars, footage_vars, has_key, image_cache,
                    last_api_call, clock, parallel, requests, calls >>

\* loop head of search_f1_images: next query, or dedupe and return
NextQuery(t) ==
    /\ task[t].pc = "query"
    /\ LET qs == Take(task[t].queries, MAX_IMAGE_QUERIES) IN
         IF task[t].qi <= Len(qs)
         THEN task' = [ task EXCEPT ![t].pc = "enter",
                                    ![t].backend = "pexels",
                                    ![t].query = F1Query(qs[task[t].qi]),
                                    ![t].num_images = task[t].num_per_query ]
         ELSE task' = [ task EXCEPT ![t].pc = "done",
                                    ![t].result = Dedupe(task[t].all_urls) ]
    /\ UNCHANGED << assembler_vars, more_vars, main_vars, footage_vars, has_key, image_cache,
                    last_api_call, clock, parallel, requests, calls >>

\* one more call entered with this cache key
CountCall(key) ==
    [ k \in DOMAIN calls \cup { key } |->
        IF k \in DOMAIN calls THEN calls[k] + (IF k = key THEN 1 ELSE 0) ELSE 1 ]

\* search_images_<backend> up to the rate limiter: cache hit, missing key
EnterSearch(t) ==
    /\ task[t].pc = "enter"
    /\ LET key == CacheKey(task[t].backend, task[t].query, task[t].num_images) IN
         /\ calls' = CountCall(key)
         /\ IF key \in DOMAIN image_cache
            THEN task' = [ task EXCEPT ![t].pc = "returned", ![t].how = "hit",
                                       ![t].urls = image_cache[key] ]
            ELSE IF NoCredentials(has_key, task[t].backend)
            THEN task' = [ task EXCEPT ![t].pc = "returned", ![t].how = "no_key",
                                       ![t].urls = << >> ]
            ELSE task' = [ task EXCEPT ![t].pc = "rate", ![t].how = "request" ]
    /\ UNCHANGED << assembler_vars, more_vars, main_vars, footage_vars, has_key, image_cache,
                    last_api_call, clock, parallel, requests >>

\* "Rate limiting": read the clock and the last-call timestamp
RateLimit(t) ==
    /\ task[t].pc = "rate"
    /\ LET delay == SleepFor(clock, last_api_call) IN
         IF delay > 0
         THEN task' = [ task EXCEPT ![t].pc = "sleep", ![t].wake = clock + delay ]
         ELSE task' = [ task EXCEPT ![t].pc = "send" ]
    /\ UNCHANGED << assembler_vars, more_vars, main_vars, footage_vars, has_key, image_cache,
                    last_api_call, clock, parallel, requests, calls >>

\* time.sleep returns, no earlier than asked
WakeUp(t) ==
    /\ task[t].pc = "sleep"
    /\ clock >= task[t].wake
    /\ task' = [ task EXCEPT ![t].pc = "send" ]
    /\ UNCHANGED << assembler_vars, more_vars, main_vars, footage_vars, has_key, image_cache,
                    last_api_call, clock, parallel, requests, calls >>

\* the timestamp is written and urlopen starts the request
SendRequest(t) ==
    /\ task[t].pc = "send"
    /\ last_api_call' = Stamp(clock, last_api_call)
    /\ requests' =
         Append(requests,
                [ task |-> t, backend |-> task[t].backend,
                  key |-> CacheKey(task[t].backend, task[t].query,
                                   task[t].num_images),
                  at |-> clock, outcome |-> "pending" ])
    /\ task' = [ task EXCEPT ![t].pc = "fetch", ![t].request = Len(requests') ]
    /\ UNCHANGED << assembler_vars, more_vars, main_vars, footage_vars, has_key, image_cache, clock,
                    parallel, calls >>

\* urlopen returns or raises; the parse; the cache store; `return urls`
Response(t) ==
    /\ task[t].pc = "fetch"
    /\ \E response \in Responses(task[t].backend, task[t].num_images) :
         /\ image_cache' =
              CacheStore(image_cache,
                         CacheKey(task[t].backend, task[t].query,
                                  task[t].num_images),
                         response)
         /\ requests' = [ requests EXCEPT ![task[t].request].outcome = response.kind ]
         /\ task' = [ task EXCEPT ![t].pc = "returned", ![t].request = 0,
                                  ![t].urls = response.urls ]
    /\ UNCHANGED << assembler_vars, more_vars, main_vars, footage_vars, has_key, last_api_call, clock,
                    parallel, calls >>

\* back in search_f1_images: extend all_urls; Unsplash as backup when Pexels
\* gave fewer than num_per_query
Returned(t) ==
    /\ task[t].pc = "returned"
    /\ LET all == task[t].all_urls \o task[t].urls IN
         IF /\ task[t].backend = "pexels"
            /\ Len(task[t].urls) < task[t].num_per_query
         THEN task' = [ task EXCEPT ![t].pc = "enter",
                                    ![t].backend = "unsplash",
                                    ![t].num_images =
                                        task[t].num_per_query - Len(task[t].urls),
                                    ![t].all_urls = all ]
         ELSE task' = [ task EXCEPT ![t].pc = "query",
                                    ![t].qi = task[t].qi + 1,
                                    ![t].all_urls = all ]
    /\ UNCHANGED << assembler_vars, more_vars, main_vars, footage_vars, has_key, image_cache,
                    last_api_call, clock, parallel, requests, calls >>

SearchNext ==
    \/ Tick
    \/ \E t \in Tasks : Begin(t)
    \/ \E t \in Tasks : NextQuery(t)
    \/ \E t \in Tasks : EnterSearch(t)
    \/ \E t \in Tasks : RateLimit(t)
    \/ \E t \in Tasks : WakeUp(t)
    \/ \E t \in Tasks : SendRequest(t)
    \/ \E t \in Tasks : Response(t)
    \/ \E t \in Tasks : Returned(t)

SearchSpec == SearchInit /\ [][SearchNext]_vars

PoolSpec == PoolInit /\ [][SearchNext]_vars

----------------------------------------------------------------------------
(* Properties of the image search, checked under SearchSpec (one task at a  *)
(* time) and PoolSpec (tasks in parallel)                                   *)

RequestsFor(key) == { i \in 1..Len(requests) : requests[i].key = key }

Failed(i) == requests[i].outcome \in { "error", "malformed" }

\* C14 as stated: whatever the outcome of the first call, no cache key is
\* ever requested from the network twice
C14_OneRequestPerKey ==
    \A i, j \in 1..Len(requests) :
      i < j => requests[i].key # requests[j].key

\* C14: an image search whose request completed without error, with a
\* non-empty or an empty result, is cached, and no later call with the same
\* arguments issues a request; a request that failed caches nothing, so the
\* next identical call issues another one
C14_OneRequestPerKeyUnlessFailed ==
    /\ \A i, j \in 1..Len(requests) :
         (i < j /\ requests[i].key = requests[j].key) => Failed(i)
    /\ \A key \in DOMAIN image_cache :
         \E i \in RequestsFor(key) : requests[i].outcome = "ok"
    /\ \A i \in 1..Len(requests) :
         requests[i].outcome = "ok" => requests[i].key \in DOMAIN image_cache

C14_Witness ==
    \E key \in DOMAIN image_cache :
      /\ image_cache[key] = << >>
      /\ calls[key] >= 2
      /\ Cardinality(RequestsFor(key)) = 1
      /\ \A t \in Tasks : task[t].pc \in { "idle", "done" }

\* C15: with one task at a time, two requests to the same image backend start
\* at least API_RATE_LIMIT_DELAY apart
C15_RequestsSpaced ==
    \A i, j \in 1..Len(requests) :
      (i < j /\ requests[i].backend = requests[j].backend) =>
        requests[j].at - requests[i].at >= API_RATE_LIMIT_DELAY

C15_Witness ==
    \E i, j \in 1..Len(requests) :
      /\ i < j
      /\ requests[i].backend = requests[j].backend
      /\ requests[j].at - requests[i].at = API_RATE_LIMIT_DELAY
      /\ task[requests[j].task].wake = requests[j].at

LastRequest == requests[Len(requests)]

\* C16 as stated: a task waits in the rate limiter of a backend only because
\* of an earlier request to that same backend
C16_NoCrossBackendDelay ==
    \A t \in Tasks :
      task[t].pc = "sleep" => LastRequest.backend = task[t].backend

\* C16: the rate limiter is one timestamp shared by both image backends: it
\* is the start of the latest request to either backend, any two successive
\* requests are API_RATE_LIMIT_DELAY apart whatever their backends, and a
\* waiting call wakes API_RATE_LIMIT_DELAY after that shared timestamp
C16_SharedTimestamp ==
    /\ last_api_call = IF requests = << >> THEN 0 ELSE LastRequest.at
    /\ \A i \in 1..(Len(requests) - 1) :
         requests[i + 1].at - requests[i].at >= API_RATE_LIMIT_DELAY
    /\ \A t \in Tasks :
         task[t].pc = "sleep" => task[t].wake = last_api_call + API_RATE_LIMIT_DELAY

C16_Witness ==
    \E t \in Tasks :
      /\ task[t].pc = "sleep"
      /\ task[t].backend = "unsplash"
      /\ LastRequest.backend = "pexels"
      /\ \A i \in 1..Len(requests) : requests[i].backend = "pexels"

QueriesDone(t) ==
    SubSeq(Take(task[t].queries, MAX_IMAGE_QUERIES), 1, task[t].qi - 1)

\* C19: a backend without credentials is never sent a request, never gets a
\* cache entry and never sets the rate limiter's timestamp; when it is Pexels,
\* search_f1_images asks Unsplash for the same query and the full count
C19_NoCredentialsNoRequest ==
    /\ \A b \in Backends :
         ~has_key[b] =>
           /\ \A i \in 1..Len(requests) : requests[i].backend # b
           /\ \A key \in DOMAIN image_cache : ~StartsWithAt(key, 1, b \o "_")
    /\ last_api_call # 0 =>
         \E i \in 1..Len(requests) :
           has_key[requests[i].backend] /\ requests[i].at = last_api_call
    /\ ~has_key["pexels"] =>
         \A t \in Tasks :
           \A q \in 1..Len(QueriesDone(t)) :
             LET key == CacheKey("unsplash", F1Query(QueriesDone(t)[q]),
                                 task[t].num_per_query)
             IN key \in DOMAIN calls /\ calls[key] >= 1

C19_Witness ==
    /\ ~has_key["pexels"]
    /\ has_key["unsplash"]
    /\ \E t \in Tasks :
         /\ task[t].pc = "done"
         /\ Len(task[t].queries) = 2
         /\ task[t].result # << >>
    /\ \E key \in DOMAIN calls : StartsWithAt(key, 1, "pexels_")

----------------------------------------------------------------------------
(* YouTube search: score_result and search_youtube_enhanced of              *)
(* src/src/footage_downloader.py, search_youtube_f1_clips of the assembler. *)
(* Scores are in hundredths (0.25 -> 25); floating-point rounding is        *)
(* abstracted to exact arithmetic.                                          *)

OFFICIAL_CHANNELS ==
    << "FORMULA 1", "Formula 1", "F1", "Sky Sports F1", "Red Bull Racing",
       "Mercedes-AMG PETRONAS F1 Team", "Scuderia Ferrari", "McLaren",
       "Aston Martin Aramco F1 Team", "BWT Alpine F1 Team", "Williams Racing" >>

GOOD_KEYWORDS ==
    << "highlights", "onboard", "race edit", "best moments", "compilation",
       "season review", "battle", "overtake", "pit stop", "start", "finish",
       "podium", "top 10", "pole lap", "fastest lap", "crash", "incident",
       "qualifying", "sprint", "team radio" >>

BAD_KEYWORDS ==
    << "interview", "press conference", "reaction", "reacts", "podcast",
       "explained", "breakdown", "analysis", "vlog", "behind the scenes",
       "documentary", "full race", "live stream", "watch along", "my thoughts",
       "opinion", "review", "preview", "prediction" >>

\* score = 0.5
BASE_SCORE == 50

\* score += 0.25 on an official channel
OFFICIAL_BOOST == 25

\* score += 0.08 per good keyword
GOOD_BOOST == 8

\* score -= 0.25 per bad keyword
BAD_PENALTY == 25

\* `if quality_score < 0.2: continue`
MIN_SCORE == 20

\* `if duration > 600: continue`
MAX_CLIP_SECONDS == 600

\* the duration assumed when yt-dlp prints none
DEFAULT_CLIP_SECONDS == 60

\* official.lower() for each official channel
OfficialLower ==
    [ i \in 1..Len(OFFICIAL_CHANNELS) |-> Lower(OFFICIAL_CHANNELS[i]) ]

\* any(o.lower() in channel.lower() for o in OFFICIAL_CHANNELS)
IsOfficial(c) ==
    LET channel_lower == Lower(c) IN
      \E i \in 1..Len(OfficialLower) : Contains(channel_lower, OfficialLower[i])

\* the loops `for kw in kws: if kw in title_lower: score += step`
RECURSIVE AddPerKeyword(_, _, _, _, _)
AddPerKeyword(s, title_lower, kws, step, i) ==
    IF i > Len(kws) THEN s
    ELSE AddPerKeyword(IF Contains(title_lower, kws[i]) THEN s + step ELSE s,
                       title_lower, kws, step, i + 1)

\* a clamp that forgets the ceiling
Clamp01NoCeiling(s) ==
    IF s < 0 THEN 0 ELSE s

\* max(0, min(1, score))
Clamp01(s) ==
    IF s < 0 THEN 0 ELSE IF s > 100 THEN 100 ELSE s

\* score before the final clamp
ScoreSum(t, c) ==
    LET title_lower == Lower(t)
        boosted == IF IsOfficial(c) THEN BASE_SCORE + OFFICIAL_BOOST ELSE BASE_SCORE
        good == AddPerKeyword(boosted, title_lower, GOOD_KEYWORDS, GOOD_BOOST, 1)
    IN AddPerKeyword(good, title_lower, BAD_KEYWORDS, 0 - BAD_PENALTY, 1)

score_result(t, c) == Clamp01(ScoreSum(t, c))

\* an ascending sort read backwards: equal keys come out in reverse order
RECURSIVE ReversedAsc(_)
ReversedAsc(pairs) ==
    IF pairs = << >> THEN << >>
    ELSE LET n == Len(pairs)
             front == ReversedAsc(SubSeq(pairs, 1, n - 1))
             p == pairs[n]
             keep == Cardinality({ j \in 1..Len(front) : front[j][1] > p[1] })
         IN SubSeq(front, 1, keep) \o << p >> \o SubSeq(front, keep + 1, Len(front))

\* sorted(..., reverse=True) on <<key, item>> pairs: stable, highest key first
RECURSIVE StableDesc(_)
StableDesc(pairs) ==
    IF pairs = << >> THEN << >>
    ELSE LET n == Len(pairs)
             front == StableDesc(SubSeq(pairs, 1, n - 1))
             p == pairs[n]
             keep == Cardinality({ j \in 1..Len(front) : front[j][1] >= p[1] })
         IN SubSeq(front, 1, keep) \o << p >> \o SubSeq(front, keep + 1, Len(front))

Items(pairs) == [ j \in 1..Len(pairs) |-> pairs[j][2] ]

IsDigits(s) ==
    s # "" /\ \A i \in 1..Len(s) : Contains(Digits, Char(s, i))

RECURSIVE ToNat(_)
ToNat(s) ==
    IF s = "" THEN 0
    ELSE 10 * ToNat(SubSeq(s, 1, Len(s) - 1))
           + (CHOOSE d \in 0..9 : Char(Digits, d + 1) = Char(s, Len(s)))

\* float(duration_str) if duration_str and duration_str != 'NA' else 60, and
\* 60 on ValueError
ParseDuration(s) ==
    IF s = "" \/ s = "NA" THEN DEFAULT_CLIP_SECONDS
    ELSE IF IsDigits(s) THEN ToNat(s) ELSE DEFAULT_CLIP_SECONDS

\* the loop of search_youtube_enhanced over the lines, before the sort;
\* a line is the sequence of its fields title, id, channel, duration
RECURSIVE ScoredVideos(_, _)
ScoredVideos(lines, i) ==
    IF i > Len(lines) THEN << >>
    ELSE LET parts == lines[i]
             quality_score == score_result(parts[1], parts[3])
         IN IF Len(parts) < 4 \/ quality_score < MIN_SCORE
            THEN ScoredVideos(lines, i + 1)
            ELSE << << quality_score,
                       [ title |-> parts[1], id |-> parts[2],
                         channel |-> parts[3], duration |-> parts[4],
                         score |-> quality_score,
                         is_official |-> IsOfficial(parts[3]) ] >> >>
                   \o ScoredVideos(lines, i + 1)

\* priority of a channel in search_youtube_f1_clips
Priority(c) ==
    LET channel_lower == Lower(c) IN
      IF Contains(channel_lower, "formula 1") \/ Contains(channel_lower, "f1") THEN 2
      ELSE IF Contains(channel_lower, "motorsport") \/ Contains(channel_lower, "racing")
      THEN 1 ELSE 0

\* the loop of search_youtube_f1_clips over the lines, before the sort;
\* a line is the sequence of its fields id, title, duration, channel
RECURSIVE PrioritisedClips(_, _)
PrioritisedClips(lines, i) ==
    IF i > Len(lines) THEN << >>
    ELSE LET parts == lines[i] IN
           IF Len(parts) < 4 \/ ParseDuration(parts[3]) > MAX_CLIP_SECONDS
           THEN PrioritisedClips(lines, i + 1)
           ELSE << << Priority(parts[4]),
                      [ url |-> "https://www.youtube.com/watch?v=" \o parts[1],
                        title |-> parts[2],
                        duration |-> ParseDuration(parts[3]),
                        channel |-> parts[4],
                        priority |-> Priority(parts[4]) ] >> >>
                  \o PrioritisedClips(lines, i + 1)

MaxTitleParts == 2
MaxCandidates == 2

TitleFragments ==
    { "Race Highlights Best Moments", "Onboard Pole Lap", "Monaco Grand Prix",
      "Driver Interview", "Season Review" }

RECURSIVE Join(_)
Join(l) ==
    IF l = << >> THEN ""
    ELSE IF Len(l) = 1 THEN l[1]
    ELSE Join(SubSeq(l, 1, Len(l) - 1)) \o " " \o l[Len(l)]

Titles == { Join(l) : l \in Lists(TitleFragments, MaxTitleParts) }

Channels == { "FORMULA 1", "WTF1", "Fan Channel" }

\* what yt-dlp can list: title, id, channel, duration
Candidates ==
    { << "Race Highlights Best Moments", "a1", "FORMULA 1", "420" >>,
      << "Driver Interview Reaction Podcast", "b2", "Fan Channel", "95" >>,
      << "Monaco Grand Prix Full Race", "c3", "Sky Sports F1", "7200" >>,
      << "Onboard Pole Lap", "d4", "Motorsport Weekly", "NA" >>,
      << "Monaco Start Overtake", "e5", "Fan Channel", "300" >>,
      << "WARNING: unable to extract" >> }

\* the same listing in the field order search_youtube_f1_clips asks for
ClipLine(parts) ==
    IF Len(parts) < 4 THEN parts
    ELSE << parts[2], parts[1], parts[4], parts[3] >>

Searches == { "search_youtube_enhanced", "search_youtube_f1_clips" }

\* running yt-dlp: the executable cannot be started (subprocess.run raises
\* OSError), it runs longer than the timeout (only search_youtube_f1_clips
\* sets one), it exits with an error and prints nothing, or it lists results
Processes(f) ==
    IF f = "search_youtube_f1_clips"
    THEN { "spawn_error", "timeout", "exit_nonzero", "ok" }
    ELSE { "spawn_error", "exit_nonzero", "ok" }

FootageInit ==
    /\ AssemblerIdle
    /\ MoreIdle
    /\ MainIdle
    /\ SearchIdle
    /\ fpc = "call"
    /\ returned = [ raised |-> FALSE, value |-> << >> ]
    /\ score = 0
    /\ \/ /\ fn = "score_result"
          /\ title \in Titles
          /\ channel \in Channels
          /\ process = None
          /\ stdout = << >>
          /\ max_results = 0
       \/ /\ fn \in Searches
          /\ title = ""
          /\ channel = ""
          /\ process \in Processes(fn)
          /\ stdout \in IF process = "ok" THEN Lists(Candidates, MaxCandidates)
                        ELSE { << >> }
          /\ max_results \in IF fn = "search_youtube_f1_clips"
                             THEN 1..MaxCandidates ELSE { MaxCandidates }

\* a call of score_result(title, channel)
ScoreResult ==
    /\ fpc = "call"
    /\ fn = "score_result"
    /\ score' = score_result(title, channel)
    /\ fpc' = "returned"
    /\ UNCHANGED << assembler_vars, more_vars, main_vars, search_vars, fn, title, channel,
                    process, stdout, max_results, returned >>

\* a call of search_youtube_enhanced: subprocess.run is outside any try
SearchYoutubeEnhanced ==
    /\ fpc = "call"
    /\ fn = "search_youtube_enhanced"
    /\ returned' =
         IF process = "spawn_error" THEN [ raised |-> TRUE, value |-> << >> ]
         ELSE [ raised |-> FALSE,
                value |-> Items(StableDesc(ScoredVideos(stdout, 1))) ]
    /\ fpc' = "returned"
    /\ UNCHANGED << assembler_vars, more_vars, main_vars, search_vars, fn, title, channel,
                    process, stdout, max_results, score >>

\* a call of search_youtube_f1_clips: the whole body is inside
\* `try ... except Exception: return []`
SearchYoutubeF1Clips ==
    /\ fpc = "call"
    /\ fn = "search_youtube_f1_clips"
    /\ returned' =
         IF process \in { "spawn_error", "timeout" }
         THEN [ raised |-> FALSE, value |-> << >> ]
         ELSE [ raised |-> FALSE,
                value |->
                  Take(Items(StableDesc(
                         PrioritisedClips([ j \in 1..Len(stdout) |->
                                              ClipLine(stdout[j]) ], 1))),
                       max_results) ]
    /\ fpc' = "returned"
    /\ UNCHANGED << assembler_vars, more_vars, main_vars, search_vars, fn, title, channel,
                    process, stdout, max_results, score >>

FootageNext ==
    \/ ScoreResult
    \/ SearchYoutubeEnhanced
    \/ SearchYoutubeF1Clips

FootageSpec == FootageInit /\ [][FootageNext]_vars

----------------------------------------------------------------------------
(* Properties of the YouTube search, checked under FootageSpec *)

\* C18: a YouTube search returns to its caller without raising, with an empty
\* list when yt-dlp could not be run to a listing
C18_SearchNeverRaises ==
    (fpc = "returned" /\ fn \in Searches) =>
      /\ ~returned.raised
      /\ process # "ok" => returned.value = << >>

Scored == fpc = "returned" /\ fn = "score_result"

\* the keywords of kws that occur in the lower-case title
Matched(kws, title_lower) ==
    { i \in 1..Len(kws) : Contains(title_lower, kws[i]) }

AtLeastZero(x) == IF x < 0 THEN 0 ELSE x

\* x clamped to [0, 1], in hundredths
Clamped(x) == IF x < 0 THEN 0 ELSE IF x > 100 THEN 100 ELSE x

\* 0.5 + 0.25 if official + 0.08 per good keyword - 0.25 per bad keyword
Formula(good, bad, official) ==
    50 + (IF official THEN 25 ELSE 0) + 8 * Cardinality(good) - 25 * Cardinality(bad)

\* the bad keywords, each of which is tried as an addition to the title
AddedKeywords == { BAD_KEYWORDS[i] : i \in 1..Len(BAD_KEYWORDS) }

\* the title with one more bad keyword, if that adds one match and no other
OneMoreBad(t, word) ==
    LET longer == Lower(t) \o " " \o word IN
      /\ Cardinality(Matched(BAD_KEYWORDS, longer))
           = Cardinality(Matched(BAD_KEYWORDS, Lower(t))) + 1
      /\ Matched(GOOD_KEYWORDS, longer) = Matched(GOOD_KEYWORDS, Lower(t))

\* C20 as stated: the score is the clamped formula, and one more matched bad
\* keyword lowers the resulting score by exactly 0.25, or to 0 when that
\* would be negative
C20_OneMoreBadLowersScore ==
    Scored =>
      /\ score = Clamped(Formula(Matched(GOOD_KEYWORDS, Lower(title)),
                                 Matched(BAD_KEYWORDS, Lower(title)),
                                 IsOfficial(channel)))
      /\ \A word \in AddedKeywords :
           OneMoreBad(title, word) =>
             score_result(title \o " " \o word, channel) = AtLeastZero(score - 25)

\* C20: the score is the clamped formula, and one more matched bad keyword
\* lowers the sum before the clamp by exactly 0.25: the resulting score drops
\* by exactly 0.25 (or to 0) when the sum was at most 1, and by less when the
\* sum was above 1
C20_OneMoreBadLowersSum ==
    Scored =>
      LET sum == Formula(Matched(GOOD_KEYWORDS, Lower(title)),
                         Matched(BAD_KEYWORDS, Lower(title)),
                         IsOfficial(channel))
      IN /\ score = Clamped(sum)
         /\ 0 <= score /\ score <= 100
         /\ \A word \in AddedKeywords :
              OneMoreBad(title, word) =>
                LET lower == score_result(title \o " " \o word, channel) IN
                  /\ lower = Clamped(sum - 25)
                  /\ sum <= 100 => lower = AtLeastZero(score - 25)
                  /\ sum > 100 => score - lower < 25

C20_Witness ==
    /\ Scored
    /\ score = 100
    /\ IsOfficial(channel)
    /\ Cardinality(Matched(GOOD_KEYWORDS, Lower(title))) = 4
    /\ OneMoreBad(title, "interview")
    /\ score_result(title \o " interview", channel) = 82

----------------------------------------------------------------------------
(* Properties of search_youtube_enhanced's ranking, checked under FootageSpec *)

EnhancedReturned ==
    fpc = "returned" /\ fn = "search_youtube_enhanced" /\ ~returned.raised

\* a printed line that has all four fields and scores at least 0.2
Qualifies(parts) ==
    Len(parts) >= 4 /\ score_result(parts[1], parts[3]) >= MIN_SCORE

\* C23: the list search_youtube_enhanced returns holds no result scoring below
\* 0.2, is in non-increasing score order, and keeps results of equal score in
\* the order yt-dlp printed them: it is the qualifying lines, each once,
\* arranged so
C23_RankedStable ==
    EnhancedReturned =>
      LET v == returned.value
          Q == { i \in 1..Len(stdout) : Qualifies(stdout[i]) }
      IN /\ \A k \in 1..Len(v) : v[k].score >= MIN_SCORE
         /\ \A k \in 1..(Len(v) - 1) : v[k].score >= v[k + 1].score
         /\ Len(v) = Cardinality(Q)
         /\ \E idx \in [ 1..Len(v) -> 1..Len(stdout) ] :
              /\ { idx[k] : k \in 1..Len(v) } = Q
              /\ \A k \in 1..Len(v) :
                   /\ v[k].title = stdout[idx[k]][1]
                   /\ v[k].id = stdout[idx[k]][2]
                   /\ v[k].channel = stdout[idx[k]][3]
                   /\ v[k].score = score_result(v[k].title, v[k].channel)
              /\ \A k \in 1..(Len(v) - 1) :
                   v[k].score = v[k + 1].score => idx[k] < idx[k + 1]

\* two different results of equal score were returned
C23_Witness ==
    /\ EnhancedReturned
    /\ Len(returned.value) >= 2
    /\ returned.value[1].score = returned.value[2].score
    /\ returned.value[1].id # returned.value[2].id

----------------------------------------------------------------------------
(* Properties of the composition retry, checked under Spec *)

Finished == pc = "done"

\* the crossfade pass ran and left no temp_video
XfadeNoOutput == Len(renders) >= 1 /\ ~renders[1].output

\* at most two passes, the crossfade first, and plain concatenation only as
\* the retry of a crossfade that left no output, over the same shots in the
\* same order
RetryOnce ==
    /\ Len(renders) <= 2
    /\ Len(renders) >= 1 => renders[1].kind = "xfade"
    /\ Len(renders) = 2 =>
         /\ XfadeNoOutput
         /\ renders[2].kind = "concat"
         /\ renders[2].inputs = renders[1].inputs
    /\ (Finished /\ XfadeNoOutput) => Len(renders) = 2

\* C24 as stated: after a crossfade pass without output there is exactly one
\* retry by plain concatenation of the same shots, and the segment is reported
\* failed only if that second pass leaves no output either
C24_FailedOnlyIfRetryFails ==
    /\ RetryOnce
    /\ (Finished /\ XfadeNoOutput /\ ~result.success) => ~renders[2].output

\* C24: after a crossfade pass without output there is exactly one retry by
\* plain concatenation of the same shots in the same order and never a third
\* pass; the segment is reported failed with "Failed to create transition
\* video" exactly when the retry leaves no output either, and when the retry
\* leaves output the segment can still be reported failed by the add-audio
\* step ("Failed to add audio")
C24_RetryOnceThenFail ==
    /\ RetryOnce
    /\ (Finished /\ XfadeNoOutput) =>
         /\ ~renders[2].output <=>
              ( ~result.success
                /\ result.error = "Failed to create transition video" )
         /\ ( renders[2].output /\ ~result.success ) =>
              result.error = "Failed to add audio"

\* the crossfade left nothing and the retry left nothing either
C24_Witness ==
    /\ Finished
    /\ Len(renders) = 2
    /\ ~renders[1].output /\ ~renders[2].output
    /\ Len(renders[2].inputs) >= 3
    /\ result = Result(FALSE, "Failed to create transition video", "")

----------------------------------------------------------------------------
(* Properties of the pan/zoom effects, checked under Spec *)

\* positions of the still-image shots, in order
ImageShots == { i \in 1..Len(clip_files) : clip_files[i].kind = F1_IMAGE }

----------------------------------------------------------------------------
(* Properties of the planned shot duration, checked under Spec *)

\* MIN_CLIP_DURATION <= d <= MAX_CLIP_DURATION
InClipRange(d) ==
    /\ RLeq(<< MIN_CLIP_DURATION, 1 >>, d)
    /\ RLeq(d, << MAX_CLIP_DURATION, 1 >>)

\* C26: for every positive audio duration, the planned duration of every shot
\* (clip_duration, and this_duration of each accepted shot) lies between
\* MIN_CLIP_DURATION and MAX_CLIP_DURATION inclusive
C26_ShotDurationInRange ==
    Planned =>
      /\ InClipRange(clip_duration)
      /\ \A i \in 1..Len(clip_files) : InClipRange(clip_files[i].duration)

----------------------------------------------------------------------------
(* generate_runway_video, and the polling generators with their callers *)

\* a polling loop that has no cap
RunwayKeepPollingForever(count) == TRUE

\* `while poll_count < max_polls:`
RunwayKeepPolling(count) == count < MAX_POLLS

\* generate_runway_video up to its polling loop: the SDK or the key is
\* missing, client.image_to_video.create raises, or a task is created
RunwaySubmit ==
    /\ generator = "generate_runway_video"
    /\ gen_pc = "call"
    /\ \E outcome \in { "no_sdk", "no_key", "raised", "submitted" } :
         IF outcome = "submitted"
         THEN gen_pc' = "poll" /\ generated' = generated
         ELSE GenReturn(GenFailure(
                IF outcome = "no_sdk" THEN "Runway SDK not installed"
                ELSE IF outcome = "no_key" THEN "RUNWAY_API_KEY environment variable not set"
                ELSE "raised"))
    /\ UNCHANGED << assembler_vars, main_vars, search_vars, footage_vars,
                    beside_generator,
                    generator, operation_done, waited, status, poll_count,
                    polls, scene_calls >>

\* one iteration of the polling loop: client.tasks.retrieve, then by status
\* break and download, return the failure, or sleep and count
RunwayPoll ==
    /\ generator = "generate_runway_video"
    /\ gen_pc = "poll"
    /\ RunwayKeepPolling(poll_count)
    /\ polls' = polls + 1
    /\ \E outcome \in { "raised", "SUCCEEDED", "FAILED", "CANCELLED", "PENDING" } :
         IF outcome = "raised"
         THEN /\ GenReturn(GenFailure("raised"))
              /\ UNCHANGED << status, poll_count >>
         ELSE /\ status' = outcome
              /\ poll_count' = IF outcome = "PENDING" THEN poll_count + 1
                               ELSE poll_count
              /\ IF outcome = "SUCCEEDED"
                 THEN \E download \in { "raised", "ok" } :
                        GenReturn(IF download = "ok" THEN GenSuccess
                                  ELSE GenFailure("raised"))
                 ELSE IF outcome = "FAILED"
                 THEN GenReturn(GenFailure("Generation failed"))
                 ELSE IF outcome = "CANCELLED"
                 THEN GenReturn(GenFailure("Generation was cancelled"))
                 ELSE UNCHANGED << gen_pc, generated >>
    /\ UNCHANGED << assembler_vars, main_vars, search_vars, footage_vars,
                    beside_generator,
                    generator, operation_done, waited, scene_calls >>

\* `if poll_count >= max_polls:` after the loop ran out
RunwayTimeout ==
    /\ generator = "generate_runway_video"
    /\ gen_pc = "poll"
    /\ ~RunwayKeepPolling(poll_count)
    /\ GenReturn(GenFailure("Generation timed out after 10 minutes"))
    /\ UNCHANGED << assembler_vars, main_vars, search_vars, footage_vars,
                    beside_generator,
                    generator, operation_done, waited, status, poll_count,
                    polls, scene_calls >>

\* audio durations of the segments given to the assembler here
GenAudioDurations == { Zero, Rat(MaxAudioHalfSeconds, 2) }

\* a call of create_segment_video, or a call of generate_runway_video
GenInit ==
    /\ MainIdle
    /\ BesideGeneratorIdle
    /\ SearchIdle
    /\ FootageIdle
    /\ \/ /\ segment \in [ text : Texts(1), context : { "" },
                           footage_query : { "", "Red Bull pit stop" } ]
          /\ use_veo3 \in BOOLEAN
          /\ use_talking_head \in BOOLEAN
          /\ audio_duration \in GenAudioDurations
          /\ Called
          /\ GeneratorIdle
       \/ /\ AssemblerIdle
          /\ generator = "generate_runway_video"
          /\ gen_pc = "call"
          /\ operation_done = FALSE
          /\ waited = 0
          /\ status = None
          /\ poll_count = 0
          /\ polls = 0
          /\ generated = NoGenerated
          /\ scene_calls = 0

\* the steps of create_segment_video with its Veo3 call, or those of
\* generate_runway_video
GenNext ==
    \/ generator # "generate_runway_video" /\ Next
    \/ RunwaySubmit
    \/ RunwayPoll
    \/ RunwayTimeout

GenSpec == GenInit /\ [][GenNext]_vars

----------------------------------------------------------------------------
(* Properties of the polling generators, checked under GenSpec *)

\* the generator returned while its operation was still not complete
StillRunning ==
    /\ gen_pc = "returned"
    /\ \/ /\ generator = "generate_veo3_video"
          /\ polls * POLL_INTERVAL >= MAX_WAIT
          /\ ~operation_done
       \/ /\ generator = "generate_runway_video"
          /\ polls >= MAX_POLLS
          /\ status = "PENDING"

\* the polls are capped, and running out of them is a failure
PollsCapped ==
    /\ generator = "generate_veo3_video" =>
         /\ polls <= MAX_WAIT \div POLL_INTERVAL
         /\ waited = polls * POLL_INTERVAL
    /\ generator = "generate_runway_video" => polls <= MAX_POLLS
    /\ StillRunning => ~generated.success

\* the Veo3 block goes on to the shot planning when the generator failed
ContinuesAfterFailure ==
    ( pc = "veo3_generate" /\ gen_pc = "returned" /\ ~generated.success )
    => ( pc' = "plan" /\ result' = result /\ clip_files' = clip_files )

\* C21: generate_veo3_video makes at most max_wait / poll_interval (30) polls
\* and generate_runway_video at most max_polls (120); when the operation is
\* still not complete then, each returns a failure, and after a failed
\* generation create_segment_video goes on with its remaining strategies
C21_PollingCapped == []PollsCapped /\ [][ContinuesAfterFailure]_vars

\* generate_veo3_video, called by create_segment_video, gave up after its
\* last poll
C21_Witness ==
    /\ pc = "veo3_generate"
    /\ generator = "generate_veo3_video"
    /\ StillRunning
    /\ polls = 30
    /\ ~generated.success

----------------------------------------------------------------------------
(* Properties of the generated-scene flag, checked under Spec *)

\* the segment is one that route_visual gives a generated scene with the
\* flag on
SceneCandidate ==
    /\ ~HasQuote(locals)
    /\ locals.is_veo3_suitable
    /\ ~locals.has_f1_content
    /\ Truthy(get_veo3_prompt(segment.text, segment.context))

\* C28: with use_veo3 off, route_visual returns the generated scene neither
\* as primary nor as fallback strategy and sets no scene prompt, and
\* create_segment_video never enters the Veo3 block nor calls
\* generate_f1_scene
C28_FlagOffNoScene ==
    ( ~use_veo3 /\ pc # "start" ) =>
      /\ decision.primary_type # VEO3_VIDEO
      /\ decision.fallback_type # VEO3_VIDEO
      /\ decision.veo3_prompt = None
      /\ scene_calls = 0
      /\ GeneratorIdle
      /\ \A i \in 1..Len(attempts) : attempts[i] # VEO3_VIDEO

\* the flag is off for a segment that would get a generated scene with the
\* flag on, and the call is over
C28_Witness ==
    /\ ~use_veo3
    /\ pc = "done"
    /\ SceneCandidate
    /\ decision.primary_type # VEO3_VIDEO
    /\ scene_calls = 0

----------------------------------------------------------------------------
(* generate_srt_captions.  Times are in tenths of a millisecond. *)

MaxCaptionSegments == 3

\* one second, one minute and one hour in tenths of a millisecond
SECOND == 10 * 1000
MINUTE == 60 * SECOND
HOUR == 60 * MINUTE

\* durations ffprobe reports: 1.2 s, 59.9996 s, 3599.9998 s
CaptionDurations == { 12000, 599996, 35999998 }

CaptionTexts == { "Lights out and away we go", "Box box" }

\* a segment's audio file: is it there, and what ffprobe prints for it
AudioFiles ==
    [ exists : { FALSE }, stdout : { "" }, value : { 0 } ]
    \cup [ exists : { TRUE }, stdout : { "", "N/A" }, value : { 0 } ]
    \cup [ exists : { TRUE }, stdout : { "number" }, value : CaptionDurations ]

beside_captions ==
    << assembler_vars, main_vars, search_vars, footage_vars, generator_vars,
       download_vars, batch_vars >>

\* len(text.split()): the runs of non-blank characters
WordCount(text) ==
    Cardinality({ k \in 1..Len(text) :
                    /\ SubSeq(text, k, k) # " "
                    /\ k = 1 \/ SubSeq(text, k - 1, k - 1) = " " })

\* len(segment['text'].split()) / 2.5, in tenths of a millisecond
EstimatedDuration(text) == (WordCount(text) * SECOND * 2) \div 5

\* f"{n:03d}"
Pad3(n) == IF n < 10 THEN "00" \o Decimal(n)
           ELSE IF n < 100 THEN "0" \o Decimal(n) ELSE Decimal(n)

\* f"{x:06.3f}".replace('.', ','): x rounded to the millisecond
Millis(x) ==
    LET r == (x + 5) \div 10
    IN Pad2(r \div 1000) \o "," \o Pad3(r % 1000)

\* fmt(s): f"{h:02d}:{m:02d}:{s % 60:06.3f}" with a decimal comma
fmt(s) ==
    LET h == s \div HOUR
        m == (s % HOUR) \div MINUTE
    IN Pad2(h) \o ":" \o Pad2(m) \o ":" \o Millis(s % MINUTE)

\* a clock that is not advanced
AdvanceTimeNot(start, duration) == start

\* end_time = current_time + duration
AdvanceTime(start, duration) == start + duration

\* generate_srt_captions is called with a script and an audio directory
CaptionInit ==
    /\ AssemblerIdle
    /\ MainIdle
    /\ SearchIdle
    /\ FootageIdle
    /\ GeneratorIdle
    /\ DownloadIdle
    /\ BatchIdle
    /\ \E n \in 0..MaxCaptionSegments :
         /\ script \in [ 1..n -> CaptionTexts ]
         /\ audio \in [ 1..n -> AudioFiles ]
    /\ cap_pc = "loop"
    /\ cap_i = 0
    /\ current_time = 0
    /\ srt_content = << >>

\* one pass of `for i, segment in enumerate(segments)`; float() raises on
\* what is not a number
CaptionEntry ==
    /\ cap_pc = "loop"
    /\ cap_i < Len(script)
    /\ LET a == audio[cap_i + 1]
           text == script[cap_i + 1]
           duration == IF ~a.exists THEN EstimatedDuration(text)
                       ELSE IF a.stdout = "" THEN 0 ELSE a.value
           start_time == current_time
           end_time == AdvanceTime(current_time, duration)
       IN IF a.exists /\ a.stdout = "N/A"
          THEN /\ cap_pc' = "raised"
               /\ UNCHANGED << cap_i, current_time, srt_content >>
          ELSE /\ srt_content' = srt_content \o
                     << Decimal(cap_i + 1),
                        fmt(start_time) \o " --> " \o fmt(end_time),
                        text, "" >>
               /\ current_time' = end_time
               /\ cap_i' = cap_i + 1
               /\ cap_pc' = cap_pc
    /\ UNCHANGED << beside_captions, script, audio >>

\* the file is written and True returned
CaptionWrite ==
    /\ cap_pc = "loop"
    /\ cap_i = Len(script)
    /\ cap_pc' = "written"
    /\ UNCHANGED << beside_captions, script, audio, cap_i, current_time,
                    srt_content >>

CaptionNext ==
    \/ CaptionEntry
    \/ CaptionWrite

CaptionSpec == CaptionInit /\ [][CaptionNext]_vars

----------------------------------------------------------------------------
(* Properties of the caption track, checked under CaptionSpec *)

\* every segment has its audio file and ffprobe measured it, as main's
\* audio check requires before anything is rendered
AudioMeasured == \A k \in 1..Len(audio) : audio[k].exists /\ audio[k].stdout # "N/A"

\* the audio duration of segment k, which is 0 when ffprobe prints nothing
MeasuredDuration(k) == IF audio[k].stdout = "" THEN 0 ELSE audio[k].value

\* the sum of the audio durations of the segments before segment k
RECURSIVE StartOf(_)
StartOf(k) == IF k <= 1 THEN 0 ELSE StartOf(k - 1) + MeasuredDuration(k - 1)

\* the four lines of entry k
EntryLines(k) == SubSeq(srt_content, 4 * k - 3, 4 * k)

\* C27: the caption track has exactly one entry per script segment, in script
\* order; the first starts at 0, every entry ends at its start plus the
\* segment's audio duration, and the next one starts where it ended
C27_CaptionTimeline ==
    AudioMeasured =>
      /\ cap_pc = "loop" => current_time = StartOf(cap_i + 1)
      /\ cap_pc = "written" =>
           /\ Len(srt_content) = 4 * Len(script)
           /\ current_time = StartOf(Len(script) + 1)
           /\ \A k \in 1..Len(script) :
                EntryLines(k) =
                  << Decimal(k),
                     fmt(StartOf(k)) \o " --> "
                       \o fmt(StartOf(k) + MeasuredDuration(k)),
                     script[k], "" >>

\* a track of three entries was written, the second starting where the
\* first, of 3599.9998 s, ended
C27_Witness ==
    /\ cap_pc = "written"
    /\ AudioMeasured
    /\ Len(script) = 3
    /\ MeasuredDuration(1) = 35999998
    /\ MeasuredDuration(2) = 12000
    /\ EntryLines(2)[2] = "00:59:60,000 --> 01:00:01,200"

----------------------------------------------------------------------------
(* download_segment_enhanced and download_video.  A file is modelled by   *)
(* its content: the id of the video it holds, or None when it is missing. *)

MaxRanked == 3
MaxTried == 2

\* the ids of the videos the search can rank, best first
VideoIds == << "v1", "v2", "v3", "v4" >>

\* the scores, in hundredths, the ranked candidates can carry
RankScores == { 50, 70, 90 }

\* the result lists search_youtube_enhanced can return: distinct videos,
\* sorted by score, best first
Ranked ==
    UNION { { l \in [ 1..n -> [ id : { VideoIds[k] : k \in 1..MaxRanked },
                                score : RankScores ] ] :
                \A k \in 1..n : /\ l[k].id = VideoIds[k]
                                /\ k < n => l[k].score >= l[k + 1].score }
            : n \in 0..MaxRanked }

\* what a file can hold at the call: a leftover of an earlier run
Leftover == "left"

FileContents == { Leftover } \cup { VideoIds[k] : k \in 1..MaxRanked }

beside_download ==
    << assembler_vars, main_vars, search_vars, footage_vars, generator_vars,
       caption_vars, batch_vars >>

\* return success, error
DownloadReturn(success, error) ==
    /\ dl_result' = [ success |-> success, error |-> error ]
    /\ dl_pc' = "returned"

\* a loop over every candidate
ShortlistAll(cands, n) == cands

\* candidates[:max_candidates]
Shortlist(cands, n) == Take(cands, n)

\* download_video(video_id, path): yt-dlp saves the video or nothing, and
\* the call succeeds when a file is at the path afterwards
AfterDownload(path, video_id, saved) == IF saved THEN video_id ELSE path

\* one download_video call with what followed it
Trial(i, found, content, verdict) ==
    [ candidate |-> i, found |-> found, content |-> content,
      verdict |-> verdict ]

\* download_segment_enhanced is called
DownloadInit ==
    /\ AssemblerIdle
    /\ MainIdle
    /\ SearchIdle
    /\ FootageIdle
    /\ GeneratorIdle
    /\ CaptionIdle
    /\ BatchIdle
    /\ candidates \in Ranked
    /\ max_candidates \in 1..MaxTried
    /\ validate \in BOOLEAN
    /\ validate_fn = FALSE
    /\ rejects \in SUBSET FileContents
    /\ dl_pc = "call"
    /\ dl_i = 1
    /\ output_path \in { None, Leftover }
    /\ temp_path \in { None, Leftover }
    /\ trials = << >>
    /\ dl_result = NotReturned

\* up to the loop: the cached file, the search, the import of quick_validate
DownloadCall ==
    /\ dl_pc = "call"
    /\ IF output_path # None
       THEN DownloadReturn(TRUE, None) /\ validate_fn' = validate_fn
       ELSE \E search \in { "raised", "returned" } :
              IF search = "raised"
              THEN dl_pc' = "raised" /\ UNCHANGED << dl_result, validate_fn >>
              ELSE IF candidates = << >>
              THEN DownloadReturn(FALSE, "No search results")
                   /\ validate_fn' = validate_fn
              ELSE /\ dl_pc' = "loop"
                   /\ dl_result' = dl_result
                   /\ \E imported \in BOOLEAN : validate_fn' = (validate /\ imported)
    /\ UNCHANGED << beside_download, candidates, max_candidates, validate,
                    rejects, dl_i, output_path, temp_path, trials >>

\* one pass of `for candidate in candidates[:max_candidates]`
TryCandidate ==
    /\ dl_pc = "loop"
    /\ dl_i <= Len(Shortlist(candidates, max_candidates))
    /\ \E saved \in BOOLEAN :
         LET content == AfterDownload(temp_path, candidates[dl_i].id, saved)
         IN IF content = None
            THEN \* `if not success: continue`
                 /\ trials' = Append(trials, Trial(dl_i, temp_path, content, "failed"))
                 /\ dl_i' = dl_i + 1
                 /\ UNCHANGED << dl_pc, dl_result, output_path, temp_path >>
            ELSE IF validate_fn /\ content \in rejects
            THEN \* os.remove(temp_path), whose failure is passed over
                 /\ trials' = Append(trials, Trial(dl_i, temp_path, content, "rejected"))
                 /\ dl_i' = dl_i + 1
                 /\ \E removed \in BOOLEAN :
                      temp_path' = IF removed THEN None ELSE content
                 /\ UNCHANGED << dl_pc, dl_result, output_path >>
            ELSE \* os.rename, or shutil.move when it raises
                 /\ trials' = Append(trials, Trial(dl_i, temp_path, content, "accepted"))
                 /\ dl_i' = dl_i
                 /\ \E move \in { "renamed", "moved", "raised" } :
                      IF move = "raised"
                      THEN /\ dl_pc' = "raised"
                           /\ temp_path' = content
                           /\ UNCHANGED << dl_result, output_path >>
                      ELSE /\ output_path' = content
                           /\ temp_path' = None
                           /\ DownloadReturn(TRUE, None)
    /\ UNCHANGED << beside_download, candidates, max_candidates, validate,
                    validate_fn, rejects >>

\* return False, "All candidates failed validation"
DownloadExhausted ==
    /\ dl_pc = "loop"
    /\ dl_i > Len(Shortlist(candidates, max_candidates))
    /\ DownloadReturn(FALSE, "All candidates failed validation")
    /\ UNCHANGED << beside_download, candidates, max_candidates, validate,
                    validate_fn, rejects, dl_i, output_path, temp_path, trials >>

DownloadNext ==
    \/ DownloadCall
    \/ TryCandidate
    \/ DownloadExhausted

DownloadSpec == DownloadInit /\ [][DownloadNext]_vars

----------------------------------------------------------------------------
(* Properties of download_segment_enhanced, checked under DownloadSpec *)

Discarded(t) == t.verdict \in { "failed", "rejected" }

\* the download_video call succeeded and validation, if in use, passed
DownloadedAndValid(t) ==
    /\ t.content # None
    /\ validate_fn => t.content \notin rejects

\* C22: the candidates are tried in ranked order, best first, and at most
\* max_candidates of them; one whose download fails or which validation
\* rejects is discarded and the next is tried; the first that downloads and
\* passes validation is accepted and nothing is downloaded after it; with
\* none accepted the call returns failure
C22_BestFirstUntilAccepted ==
    /\ Len(trials) <= max_candidates
    /\ Len(trials) <= Len(candidates)
    /\ \A k \in 1..Len(trials) :
         /\ trials[k].candidate = k
         /\ k < Len(trials) =>
              /\ candidates[k].score >= candidates[k + 1].score
              /\ Discarded(trials[k])
         /\ Discarded(trials[k]) <=> ~DownloadedAndValid(trials[k])
    /\ ( dl_pc = "returned" /\ dl_result.success /\ trials # << >> ) =>
         /\ trials[Len(trials)].verdict = "accepted"
         /\ output_path = trials[Len(trials)].content
    /\ ( dl_pc = "returned" /\ ~dl_result.success ) =>
         /\ \A k \in 1..Len(trials) : Discarded(trials[k])
         /\ \/ candidates = << >>
            \/ Len(trials) = max_candidates
            \/ Len(trials) = Len(candidates)

\* the second of three candidates was accepted after the first was rejected
C22_Witness ==
    /\ dl_pc = "returned"
    /\ dl_result.success
    /\ Len(candidates) = 3
    /\ Len(trials) = 2
    /\ trials[1].verdict = "rejected"
    /\ trials[2].verdict = "accepted"
    /\ candidates[1].score > candidates[2].score

\* at return, output_path exists exactly when the call succeeded
OutputIffSuccess ==
    dl_pc = "returned" => ( dl_result.success <=> output_path # None )

\* what validation rejected is never moved to output_path
RejectedNeverMoved ==
    \A k \in 1..Len(trials) :
      trials[k].verdict = "rejected" => output_path # trials[k].content

\* no download starts with the file of a rejected candidate in place
RejectedRemoved ==
    \A k \in 2..Len(trials) :
      trials[k - 1].verdict = "rejected" => trials[k].found = None

\* C29: called without output_path, download_segment_enhanced leaves it in
\* place exactly when it returns success; a rejected candidate is never
\* moved there, and its temporary file is removed before the next candidate
\* is downloaded
C29_OutputAndTempFile ==
    /\ OutputIffSuccess
    /\ RejectedNeverMoved
    /\ RejectedRemoved

----------------------------------------------------------------------------
(* visual_router: process_segment and the batch mode of main.  Segment     *)
(* idx (from 0) is segments[idx + 1].                                      *)

MaxBatchSegments == 3
MaxWorkers == 2

\* two of the visual types process_segment knows, and one it does not
VisualTypes == { "footage", "graphic", "hologram" }

KnownTypes == { "footage", "graphic" }

\* what the generator of a segment can do: it cannot be imported, it
\* returns success or failure, or it raises
GeneratorOutcomes == { "unavailable", "success", "failure", "exception" }

beside_batch ==
    << assembler_vars, main_vars, search_vars, footage_vars, generator_vars,
       caption_vars, download_vars >>

\* the tuple idx, success, source_type, error
SegmentResult(idx, success, source, error) ==
    [ idx |-> idx, success |-> success, source |-> source, error |-> error ]

\* a future that is not complete
NotComplete == SegmentResult(-1, FALSE, "<running>", None)

\* process_segment(segment, idx, ...), given what its generator does; for
\* footage the basic downloader stands in when the enhanced one is missing
process_segment(seg, idx, outcome, basic) ==
    IF seg.exists THEN SegmentResult(idx, TRUE, "cached", None)
    ELSE IF seg.visual_type \notin KnownTypes
    THEN SegmentResult(idx, FALSE, "unknown", "Unknown visual_type")
    ELSE IF outcome = "exception"
    THEN SegmentResult(idx, FALSE, seg.visual_type, "str(e)")
    ELSE IF outcome = "unavailable"
    THEN IF seg.visual_type = "footage"
         THEN SegmentResult(idx, basic, "footage", IF basic THEN None ELSE "error")
         ELSE SegmentResult(idx, FALSE, seg.visual_type, "not available")
    ELSE SegmentResult(idx, outcome = "success", seg.visual_type,
                       IF outcome = "success" THEN None ELSE "error")

\* does process_segment get as far as its generators
EntersTry(seg) == ~seg.exists /\ seg.visual_type \in KnownTypes

\* counters that take a cached segment for a generated one
CountedBySuccess(counters, r) ==
    IF r.success THEN [ counters EXCEPT !.success = @ + 1 ]
    ELSE [ counters EXCEPT !.failed = @ + 1 ]

\* `if source == "cached": ... elif success: ... else: ...`
Counted(counters, r) ==
    IF r.source = "cached" THEN [ counters EXCEPT !.cached = @ + 1 ]
    ELSE IF r.success THEN [ counters EXCEPT !.success = @ + 1 ]
    ELSE [ counters EXCEPT !.failed = @ + 1 ]

\* ThreadPoolExecutor(max_workers=...) raises ValueError below one worker
PoolRejects(n) == n <= 0

\* batch mode is entered with a script, --workers and --sequential
BatchInit ==
    /\ AssemblerIdle
    /\ MainIdle
    /\ SearchIdle
    /\ FootageIdle
    /\ GeneratorIdle
    /\ CaptionIdle
    /\ DownloadIdle
    /\ \E n \in 0..MaxBatchSegments :
         /\ segments \in [ 1..n -> [ visual_type : VisualTypes, exists : BOOLEAN ] ]
         /\ futures = [ k \in 1..n |-> NotComplete ]
    /\ workers \in 0..MaxWorkers
    /\ sequential \in BOOLEAN
    /\ batch_pc = "start"
    /\ pending = { }
    /\ running = { }
    /\ yielded = << >>
    /\ results = [ success |-> 0, cached |-> 0, failed |-> 0 ]
    /\ invoked = { }

\* `if args.sequential:`, else the executor is made and every segment
\* submitted
BatchStart ==
    /\ batch_pc = "start"
    /\ IF sequential
       THEN batch_pc' = "sequential" /\ pending' = pending
       ELSE IF PoolRejects(workers)
       THEN batch_pc' = "raised" /\ pending' = pending
       ELSE batch_pc' = "pool" /\ pending' = { k - 1 : k \in 1..Len(segments) }
    /\ UNCHANGED << beside_batch, segments, workers, sequential, running,
                    futures, yielded, results, invoked >>

\* one pass of the sequential loop: the segment is processed and counted
SequentialSegment ==
    /\ batch_pc = "sequential"
    /\ Len(yielded) < Len(segments)
    /\ LET idx == Len(yielded)
           seg == segments[idx + 1]
       IN \E outcome \in GeneratorOutcomes, basic \in BOOLEAN :
            LET r == process_segment(seg, idx, outcome, basic)
            IN /\ yielded' = Append(yielded, r)
               /\ results' = Counted(results, r)
               /\ invoked' = IF EntersTry(seg)
                             THEN invoked \cup { << idx, outcome >> }
                             ELSE invoked
    /\ UNCHANGED << beside_batch, segments, workers, sequential, batch_pc,
                    pending, running, futures >>

\* a free worker starts the call that was submitted first
WorkerStart ==
    /\ batch_pc = "pool"
    /\ pending # { }
    /\ Cardinality(running) < workers
    /\ LET idx == Min(pending)
       IN /\ pending' = pending \ { idx }
          /\ running' = running \cup { idx }
    /\ UNCHANGED << beside_batch, segments, workers, sequential, batch_pc,
                    futures, yielded, results, invoked >>

\* a worker's process_segment call returns and its future is complete
WorkerDone ==
    /\ batch_pc = "pool"
    /\ \E idx \in running :
         LET seg == segments[idx + 1]
         IN \E outcome \in GeneratorOutcomes, basic \in BOOLEAN :
              /\ futures' = [ futures EXCEPT
                                ![idx + 1] = process_segment(seg, idx, outcome, basic) ]
              /\ invoked' = IF EntersTry(seg)
                            THEN invoked \cup { << idx, outcome >> }
                            ELSE invoked
              /\ running' = running \ { idx }
    /\ UNCHANGED << beside_batch, segments, workers, sequential, batch_pc,
                    pending, yielded, results >>

\* `for future in as_completed(futures)`: main takes a complete future it
\* has not taken yet and counts its result
Collect ==
    /\ batch_pc = "pool"
    /\ \E k \in 1..Len(futures) :
         /\ futures[k] # NotComplete
         /\ \A j \in 1..Len(yielded) : yielded[j].idx # k - 1
         /\ yielded' = Append(yielded, futures[k])
         /\ results' = Counted(results, futures[k])
    /\ UNCHANGED << beside_batch, segments, workers, sequential, batch_pc,
                    pending, running, futures, invoked >>

\* the loop is over and the counters are printed
BatchEnd ==
    /\ batch_pc \in { "sequential", "pool" }
    /\ Len(yielded) = Len(segments)
    /\ batch_pc' = "done"
    /\ UNCHANGED << beside_batch, segments, workers, sequential, pending,
                    running, futures, yielded, results, invoked >>

BatchNext ==
    \/ BatchStart
    \/ SequentialSegment
    \/ WorkerStart
    \/ WorkerDone
    \/ Collect
    \/ BatchEnd

BatchSpec == BatchInit /\ [][BatchNext]_vars

\* the workers and main keep running, and every generator call returns
BatchFairSpec == BatchSpec /\ WF_vars(BatchNext)

----------------------------------------------------------------------------
(* Properties of the batch mode, checked under BatchFairSpec *)

BatchEnded == batch_pc \in { "done", "raised" }

\* the results main has taken for segment idx
ResultsOf(idx) == { j \in 1..Len(yielded) : yielded[j].idx = idx }

\* how many segments had their output file at the start
CachedSegments == Cardinality({ k \in 1..Len(segments) : segments[k].exists })

\* what holds of the results taken so far
ResultsSound ==
    /\ \A k \in 1..Len(segments) :
         /\ Cardinality(ResultsOf(k - 1)) <= 1
         /\ segments[k].exists => \A o \in GeneratorOutcomes : << k - 1, o >> \notin invoked
         /\ \A j \in ResultsOf(k - 1) :
              /\ segments[k].exists =>
                   yielded[j].success /\ yielded[j].source = "cached"
              /\ ~segments[k].exists => yielded[j].source # "cached"
              /\ ( ~segments[k].exists /\ segments[k].visual_type \notin KnownTypes )
                   => ~yielded[j].success
              /\ << k - 1, "exception" >> \in invoked => ~yielded[j].success
    /\ results.success + results.cached + results.failed = Len(yielded)

\* what holds when the batch is over
OneResultEach ==
    /\ \A k \in 1..Len(segments) : Cardinality(ResultsOf(k - 1)) = 1
    /\ results.cached = CachedSegments
    /\ results.success + results.cached + results.failed = Len(segments)

\* the original C30, for any worker count: the batch ends with one result
\* for every segment
C30_AnyWorkerCount == BatchEnded => OneResultEach

\* C30: in batch mode, sequential or with at least one worker, and for any
\* completion order, the batch ends and every segment has yielded exactly
\* one result; an exception or an unknown visual_type is that segment's
\* failure, a segment whose output exists is cached without a generator
\* call, and success + cached + failed is the number of segments
C30_OneResultPerSegment ==
    /\ []ResultsSound
    /\ []( ( sequential \/ workers >= 1 ) => batch_pc # "raised" )
    /\ []( batch_pc = "done" => OneResultEach )
    /\ ( sequential \/ workers >= 1 ) => <>( batch_pc = "done" )

\* two workers, three segments, the second finished and counted first, the
\* first raised, the third was cached
C30_Witness ==
    /\ batch_pc = "done"
    /\ ~sequential
    /\ workers = 2
    /\ Len(segments) = 3
    /\ yielded[1].idx = 1
    /\ << 0, "exception" >> \in invoked
    /\ segments[3].exists
    /\ results = [ success |-> 1, cached |-> 1, failed |-> 1 ]

====
